---- MODULE Spec2Model ----
(***************************************************************************)
(* A model of go-drive's recursive copy engine (drive_util: CopyAll,       *)
(* copyAll, buildEntriesTree) and of its WebDAV driver (drive/webdav.go).  *)
(*                                                                         *)
(* Paths are sequences of names: "/a/b" is <<"a", "b">>.  The copy engine  *)
(* is modelled as the call stack of copyAll, one action per statement      *)
(* group; the destination drive, the copy primitive and the after callback *)
(* are the environment, and every one of them may fail.                    *)
(***************************************************************************)
EXTENDS Integers, Sequences, FiniteSets, TLC

VARIABLES
    src,        \* the source tree: path -> [type, size, kids]
    dst,        \* the destination drive: path -> [type, by]
    override,   \* CopyAll's override argument
    canceled,   \* the task context's cancellation flag
    total,      \* the task context's total
    phase,      \* "build" | "list" | "built" | "apply" | "done"
    bidx,       \* buildEntriesTree: position in the depth-first walk
    stack,      \* copyAll: the call stack, the running frame last
    ret,        \* the value the last returned frame handed to its caller
    result,     \* what CopyAll returned (when phase = "done")
    run,        \* which CopyAll call of this history is running
    log,        \* history: the calls the running CopyAll has made so far
    dstPrev,    \* history: the destination when the running call started
    resPrev,    \* history: what the previous call returned
    wfs,        \* WebDAV: the server's entries: path -> [type, data]
    wcache,     \* WebDAV: the drive's entry cache: path -> entry or NoWEntry
    wcacheOn,   \* WebDAV: cache_ttl > 0 (otherwise the dummy cache)
    clients,    \* WebDAV: the callers of the drive's methods
    wc,         \* WebDAV: each caller's running call
    ncalls,     \* WebDAV: calls started so far
    content,    \* content: the entry a routine is called with
    dreq,       \* content: the routine's other arguments
    rw,         \* content: the http.ResponseWriter of a download
    upstream,   \* content: the request the reverse proxy has forwarded
    ipc,        \* content: position of the running routine
    iret,       \* content: what the routine returned
    ictx,       \* streaming: the task context the routine polls
    rd,         \* streaming: the reader copied from
    cp,         \* streaming: Copy's locals and what it returned
    tmp,        \* streaming: the temporary file
    saves,      \* streaming: the Save calls made on the destination drive
    listPrefix, \* List: the drive's pathPrefix
    listCache,  \* List: the cache's children records: key -> entries or a miss
    listCall,   \* List: the running call
    listCount,  \* List: calls started so far
    listCacheOn, \* List: the drive was opened with a cache_ttl > 0
    listFs,     \* List: the server's tree
    listMut,    \* List: the call of a mutating method, running or returned
    listEntries, \* List: the cache's entry records: key -> an entry or a miss
    listMuts    \* List: calls of mutating methods so far

copyVars == <<src, dst, override, canceled, total, phase, bidx, stack, ret,
              result, run, log, dstPrev, resPrev>>

davVars == <<wfs, wcache, wcacheOn, clients, wc, ncalls>>

ioVars == <<content, dreq, rw, upstream, ipc, iret, ictx, rd, cp, tmp, saves>>

listVars == <<listPrefix, listCache, listCall, listCount, listCacheOn, listFs,
              listMut, listEntries, listMuts>>

vars == <<copyVars, davVars, ioVars, listVars>>

(***************************************************************************)
(* Bounds                                                                  *)
(***************************************************************************)
\* CopyAll calls made one after the other on the same destination.
MaxRuns == 2

(***************************************************************************)
(* Paths                                                                   *)
(***************************************************************************)
PathBase(p) == p[Len(p)]

PathParent(p) == SubSeq(p, 1, Len(p) - 1)

\* utils.CleanPath(path.Join(to, name))
PathJoin(to, name) == Append(to, name)

SrcRoot == <<"a">>

DstRoot == <<"dst">>

\* Where a source path lands when SrcRoot is copied to DstRoot.
Mirror(p) == DstRoot \o SubSeq(p, 2, Len(p))

SrcPaths == {<<"a">>, <<"a", "f1">>, <<"a", "b">>, <<"a", "b", "f2">>}

DstPaths == {Mirror(p) : p \in SrcPaths}

(***************************************************************************)
(* Entries                                                                 *)
(***************************************************************************)
NoEntry == [type |-> "none", size |-> 0, kids |-> <<>>]

FileEntry(size) == [type |-> "file", size |-> size, kids |-> <<>>]

\* A directory entry reports size -1 (webDavEntry.Size).
DirEntry(kids) == [type |-> "dir", size |-> 0 - 1, kids |-> kids]

IsFile(e) == e.type = "file"

IsDir(e) == e.type = "dir"

\* The source trees the model copies; kids are in the order List returns them.
TreeFile ==
    [p \in SrcPaths |-> IF p = <<"a">> THEN FileEntry(7) ELSE NoEntry]

TreeExample ==
    [p \in SrcPaths |->
        CASE p = <<"a">> -> DirEntry(<<"f1", "b">>)
          [] p = <<"a", "f1">> -> FileEntry(10)
          [] p = <<"a", "b">> -> DirEntry(<<"f2">>)
          [] p = <<"a", "b", "f2">> -> FileEntry(5)]

TreeDeepFirst ==
    [p \in SrcPaths |->
        CASE p = <<"a">> -> DirEntry(<<"b", "f1">>)
          [] p = <<"a", "f1">> -> FileEntry(10)
          [] p = <<"a", "b">> -> DirEntry(<<"f2">>)
          [] p = <<"a", "b", "f2">> -> FileEntry(5)]

TreeDirsOnly ==
    [p \in SrcPaths |->
        CASE p = <<"a">> -> DirEntry(<<"b">>)
          [] p = <<"a", "b">> -> DirEntry(<<>>)
          [] OTHER -> NoEntry]

SourceTrees == {TreeFile, TreeExample, TreeDeepFirst, TreeDirsOnly}

Nodes(t) == {p \in SrcPaths : t[p].type # "none"}

FileNodes(t) == {p \in SrcPaths : IsFile(t[p])}

DirNodes(t) == {p \in SrcPaths : IsDir(t[p])}

\* q is p or lies beneath p.
IsPrefix(p, q) == Len(p) <= Len(q) /\ SubSeq(q, 1, Len(p)) = p

\* A destination entry: its type and the CopyAll call that wrote it
\* (0: it was there before the first call).
NoDst == [type |-> "none", by |-> 0]

\* The destinations a call can start on: every entry's parent is a directory.
DstStates ==
    {d \in [DstPaths -> {[type |-> t, by |-> 0] : t \in {"none", "file", "dir"}}] :
        \A p \in DstPaths :
            (p # DstRoot /\ d[p].type # "none") => d[PathParent(p)].type = "dir"}

(***************************************************************************)
(* Errors                                                                  *)
(***************************************************************************)
Err(kind) == [kind |-> kind, key |-> "", from |-> <<>>, to |-> <<>>]

Nil == Err("nil")

\* task.ErrorCanceled
ErrorCanceled == Err("Canceled")

\* err.NewNotAllowedMessageError(i18n.T(key, from, to))
NewNotAllowedMessageError(key, from, to) ==
    [kind |-> "NotAllowed", key |-> key, from |-> from, to |-> to]

\* err.IsNotFoundError
IsNotFoundError(e) == e.kind = "NotFound"

(***************************************************************************)
(* The task context (common/task, not part of the sources at hand)         *)
(***************************************************************************)
\* ctx.Total(n, abs): abs sets the total, otherwise n is added to it.
CtxTotal(cur, n, abs) == IF abs THEN n ELSE cur + n

(***************************************************************************)
(* History                                                                 *)
(***************************************************************************)
Ev(op, node, to, flag, e) ==
    [op |-> op, node |-> node, to |-> to, flag |-> flag, err |-> e]

\* The positions of the log's events of kind op on source node n.
EvIdx(op, n) == {i \in 1..Len(log) : log[i].op = op /\ log[i].node = n}

Count(op, n) == Cardinality(EvIdx(op, n))

OpIdx(op) == {i \in 1..Len(log) : log[i].op = op}

(***************************************************************************)
(* buildEntriesTree                                                        *)
(***************************************************************************)
RECURSIVE Flatten(_, _), FlattenKids(_, _, _)
\* The order in which buildEntriesTree (and then copyAll) visits the tree:
\* a node, then its children in listing order (flattenEntriesTree).
Flatten(t, p) == <<p>> \o FlattenKids(t, p, 1)

FlattenKids(t, p, i) ==
    IF i > Len(t[p].kids) THEN <<>>
    ELSE Flatten(t, PathJoin(p, t[p].kids[i])) \o FlattenKids(t, p, i + 1)

Order == Flatten(src, SrcRoot)

\* What buildEntriesTree adds to the total for one entry: a file's size when
\* bytes are tracked (nothing for a directory), one item otherwise.
TotalDelta(e, bytesProgress) ==
    IF bytesProgress THEN (IF IsFile(e) THEN e.size ELSE 0) ELSE 1

\* CopyAll builds the tree with bytesProgress = true.
BytesProgress == TRUE

\* A walk that never looks at the flag.
PollCanceledNever(flag) == FALSE

\* ctx.Canceled(), as polled on entering a frame.
PollCanceled(flag) == flag

Finish(e) ==
    /\ phase' = "done"
    /\ result' = e

\* One frame of buildEntriesTree up to its listing: the poll and the total.
\* A file's frame returns here; a directory's goes on to list it.
BuildNode ==
    /\ UNCHANGED <<davVars, ioVars, listVars>>
    /\ phase = "build"
    /\ bidx <= Len(Order)
    /\ LET n == Order[bidx]
           e == src[n]
       IN IF PollCanceled(canceled)
          THEN /\ Finish(ErrorCanceled)
               /\ log' = Append(log, Ev("buildCanceled", n, <<>>, FALSE, ErrorCanceled))
               /\ UNCHANGED <<total, bidx>>
          ELSE /\ total' = CtxTotal(total, TotalDelta(e, BytesProgress), FALSE)
               /\ IF IsFile(e)
                  THEN /\ bidx' = bidx + 1
                       /\ phase' = IF bidx + 1 > Len(Order) THEN "built" ELSE "build"
                       /\ log' = Append(log, Ev("built", n, <<>>, TRUE, Nil))
                  ELSE /\ phase' = "list"
                       /\ log' = Append(log, Ev("list", n, <<>>, TRUE, Nil))
                       /\ UNCHANGED bidx
               /\ UNCHANGED result
    /\ UNCHANGED <<src, dst, override, canceled, stack, ret, run, dstPrev, resPrev>>

\* entry.Drive().List(entry.Path()) answers: the children, which the walk
\* goes on with, or an error, which buildEntriesTree returns.
BuildList ==
    /\ UNCHANGED <<davVars, ioVars, listVars>>
    /\ phase = "list"
    /\ LET n == Order[bidx]
       IN \/ /\ bidx' = bidx + 1
             /\ phase' = IF bidx + 1 > Len(Order) THEN "built" ELSE "build"
             /\ log' = Append(log, Ev("built", n, <<>>, TRUE, Nil))
             /\ UNCHANGED result
          \/ /\ Finish(Err("ListFailed"))
             /\ log' = Append(log, Ev("listFailed", n, <<>>, FALSE, Err("ListFailed")))
             /\ UNCHANGED bidx
    /\ UNCHANGED <<src, dst, override, canceled, total, stack, ret, run, dstPrev, resPrev>>

(***************************************************************************)
(* copyAll                                                                 *)
(***************************************************************************)
NoRet == [set |-> FALSE, r |-> FALSE, e |-> Nil]

Frame(node, to, newParent) ==
    [node |-> node, to |-> to, newParent |-> newParent, pc |-> "enter",
     idx |-> 1, dstExists |-> FALSE, dstType |-> "none", dirCreate |-> FALSE,
     allProcessed |-> TRUE]

Top == stack[Len(stack)]

SetTop(f) == [stack EXCEPT ![Len(stack)] = f]

\* CopyAll, after the tree is built: the root frame, newParent = false.
StartApply ==
    /\ UNCHANGED <<davVars, ioVars, listVars>>
    /\ phase = "built"
    /\ phase' = "apply"
    /\ stack' = <<Frame(SrcRoot, DstRoot, FALSE)>>
    /\ UNCHANGED <<src, dst, override, canceled, total, bidx, ret, result, run,
                   log, dstPrev, resPrev>>

\* `return r, e` of the running frame; the root's return is CopyAll's.
Return(r, e, evs) ==
    /\ stack' = SubSeq(stack, 1, Len(stack) - 1)
    /\ ret' = [set |-> TRUE, r |-> r, e |-> e]
    /\ log' = log \o evs \o <<Ev("return", Top.node, Top.to, r, e)>>
    /\ IF Len(stack) = 1 THEN Finish(e) ELSE UNCHANGED <<phase, result>>

Running(pc) == phase = "apply" /\ stack # <<>> /\ Top.pc = pc

\* A walk that looks every destination up.
NeedsGetAlways(newParent) == TRUE

\* The existence lookup is skipped under a freshly created parent.
NeedsGet(newParent) == ~newParent

\* Entering a frame: the cancellation poll, then the newParent decision.
Enter ==
    /\ UNCHANGED <<davVars, ioVars, listVars>>
    /\ Running("enter")
    /\ IF PollCanceled(canceled)
       THEN /\ Return(FALSE, ErrorCanceled, <<>>)
            /\ UNCHANGED dst
       ELSE /\ stack' = SetTop([Top EXCEPT !.pc = IF NeedsGet(Top.newParent)
                                                  THEN "get" ELSE "body"])
            /\ log' = Append(log, Ev("enter", Top.node, Top.to, Top.newParent, Nil))
            /\ UNCHANGED <<dst, ret, phase, result>>
    /\ UNCHANGED <<src, override, canceled, total, bidx, run, dstPrev, resPrev>>

\* What driveTo.Get(to) can answer: the entry's type, not-found, or a failure.
GetAnswers(to) ==
    {[e |-> IF dst[to].type = "none" THEN Err("NotFound") ELSE Nil,
      type |-> dst[to].type],
     [e |-> Err("GetFailed"), type |-> "none"]}

\* dst, e := driveTo.Get(to)
DstGet ==
    /\ UNCHANGED <<davVars, ioVars, listVars>>
    /\ Running("get")
    /\ \E a \in GetAnswers(Top.to) :
         LET ev == Ev("Get", Top.node, Top.to, a.e = Nil, a.e)
         IN IF a.e # Nil /\ ~IsNotFoundError(a.e)
            THEN Return(FALSE, a.e, <<ev>>)
            ELSE /\ stack' = SetTop([Top EXCEPT !.pc = "body",
                                                !.dstExists = (a.e = Nil),
                                                !.dstType = IF a.e = Nil THEN a.type ELSE "none"])
                 /\ log' = Append(log, ev)
                 /\ UNCHANGED <<ret, phase, result>>
    /\ UNCHANGED <<src, dst, override, canceled, total, bidx, run, dstPrev, resPrev>>

\* A type check that misses a file copied onto a directory.
TypeMismatchDirOnly(e, dstExists, dstType) ==
    dstExists /\ IsDir(e) /\ dstType = "file"

\* A directory onto a file, or a file onto a directory.
TypeMismatch(e, dstExists, dstType) ==
    /\ dstExists
    /\ \/ IsDir(e) /\ dstType = "file"
       \/ IsFile(e) /\ dstType = "dir"

MismatchError(e, from, to) ==
    NewNotAllowedMessageError(
        IF IsDir(e) THEN "drive.copy_type_mismatch1" ELSE "drive.copy_type_mismatch2",
        from, to)

\* A walk that goes into a directory's children without making the
\* directory at the destination.
DirBodyNoMakeDir ==
    /\ UNCHANGED <<davVars, ioVars, listVars>>
    /\ Running("body")
    /\ IsDir(src[Top.node])
    /\ IF TypeMismatch(src[Top.node], Top.dstExists, Top.dstType)
       THEN /\ Return(FALSE, MismatchError(src[Top.node], Top.node, Top.to), <<>>)
            /\ UNCHANGED dst
       ELSE /\ stack' = SetTop([Top EXCEPT !.pc = "children"])
            /\ UNCHANGED <<dst, ret, phase, result, log>>
    /\ UNCHANGED <<src, override, canceled, total, bidx, run, dstPrev, resPrev>>

\* A directory node: type check, then MakeDir unless the destination exists.
DirBody ==
    /\ UNCHANGED <<davVars, ioVars, listVars>>
    /\ Running("body")
    /\ IsDir(src[Top.node])
    /\ IF TypeMismatch(src[Top.node], Top.dstExists, Top.dstType)
       THEN /\ Return(FALSE, MismatchError(src[Top.node], Top.node, Top.to), <<>>)
            /\ UNCHANGED dst
       ELSE IF Top.dstExists
       THEN /\ stack' = SetTop([Top EXCEPT !.pc = "children"])
            /\ UNCHANGED <<dst, ret, phase, result, log>>
       ELSE \/ /\ dst' = [dst EXCEPT ![Top.to] = [type |-> "dir", by |-> run]]
               /\ stack' = SetTop([Top EXCEPT !.pc = "children", !.dirCreate = TRUE])
               /\ log' = Append(log, Ev("MakeDir", Top.node, Top.to, TRUE, Nil))
               /\ UNCHANGED <<ret, phase, result>>
            \/ /\ Return(FALSE, Err("MakeDirFailed"),
                         <<Ev("MakeDir", Top.node, Top.to, FALSE, Err("MakeDirFailed"))>>)
               /\ UNCHANGED dst
    /\ UNCHANGED <<src, override, canceled, total, bidx, run, dstPrev, resPrev>>

\* The loop over entry.children: the recursive call for the next child.
NextChild ==
    /\ UNCHANGED <<davVars, ioVars, listVars>>
    /\ Running("children")
    /\ Top.idx <= Len(src[Top.node].kids)
    /\ LET name == src[Top.node].kids[Top.idx]
           child == PathJoin(Top.node, name)
       IN stack' = Append(SetTop([Top EXCEPT !.pc = "wait", !.idx = Top.idx + 1]),
                          Frame(child, PathJoin(Top.to, PathBase(child)), Top.dirCreate))
    /\ UNCHANGED <<src, dst, override, canceled, total, phase, bidx, ret, result,
                   run, log, dstPrev, resPrev>>

\* An error of a child replaced by an error of the caller's own.
PropagateWrapped(ee) == Err("Wrapped")

\* An error of a child is returned as it is.
Propagate(ee) == ee

\* A caller that drops what its child reported.
ChildFlagIgnored(allProcessed, r) == allProcessed

\* allProcessed after a child returned r.
ChildFlag(allProcessed, r) == IF ~r THEN FALSE ELSE allProcessed

\* r, ee := copyAll(child ...): the caller's side of a child's return.
ChildReturn ==
    /\ UNCHANGED <<davVars, ioVars, listVars>>
    /\ Running("wait")
    /\ ret.set
    /\ IF ret.e # Nil
       THEN Return(FALSE, Propagate(ret.e), <<>>)
       ELSE /\ stack' = SetTop([Top EXCEPT !.pc = "children",
                                           !.allProcessed = ChildFlag(Top.allProcessed, ret.r)])
            /\ ret' = NoRet
            /\ UNCHANGED <<phase, result, log>>
    /\ UNCHANGED <<src, dst, override, canceled, total, bidx, run, dstPrev, resPrev>>

\* A walk that never skips.
SkipFileNever(dstExists, ovr) == FALSE

\* An existing destination file is skipped when overwriting is not allowed.
SkipFile(dstExists, ovr) == dstExists /\ ~ovr

\* A variant of the skip that goes on to the after callback.
SkipStepThenAfter ==
    /\ stack' = SetTop([Top EXCEPT !.pc = "after", !.allProcessed = FALSE])
    /\ log' = Append(log, Ev("skip", Top.node, Top.to, FALSE, Nil))
    /\ UNCHANGED <<ret, phase, result>>

\* The skip: `return false, nil`, past the after callback.
SkipStep == Return(FALSE, Nil, <<Ev("skip", Top.node, Top.to, FALSE, Nil)>>)

\* A file node: type check, skip, or the call of the copy primitive.
FileBody ==
    /\ UNCHANGED <<davVars, ioVars, listVars>>
    /\ Running("body")
    /\ IsFile(src[Top.node])
    /\ IF TypeMismatch(src[Top.node], Top.dstExists, Top.dstType)
       THEN Return(FALSE, MismatchError(src[Top.node], Top.node, Top.to), <<>>)
       ELSE IF SkipFile(Top.dstExists, override)
       THEN SkipStep
       ELSE /\ stack' = SetTop([Top EXCEPT !.pc = "copying"])
            /\ log' = Append(log, Ev("doCopy", Top.node, Top.to, TRUE, Nil))
            /\ UNCHANGED <<ret, phase, result>>
    /\ UNCHANGED <<src, dst, override, canceled, total, bidx, run, dstPrev, resPrev>>

\* The errors the copy primitive can return; one that polls the context
\* returns the canceled error once the flag is set.
CopyErrors == {Err("CopyFailed")} \cup (IF canceled THEN {ErrorCanceled} ELSE {})

\* doCopy returns: the file is written, or the primitive failed (and may
\* have left a partly written file behind).
DoCopyEnd ==
    /\ UNCHANGED <<davVars, ioVars, listVars>>
    /\ Running("copying")
    /\ \/ /\ dst' = [dst EXCEPT ![Top.to] = [type |-> "file", by |-> run]]
          /\ stack' = SetTop([Top EXCEPT !.pc = "after"])
          /\ log' = Append(log, Ev("copied", Top.node, Top.to, TRUE, Nil))
          /\ UNCHANGED <<ret, phase, result>>
       \/ \E e \in CopyErrors, partial \in BOOLEAN :
            /\ dst' = IF partial
                      THEN [dst EXCEPT ![Top.to] = [type |-> "file", by |-> run]]
                      ELSE dst
            /\ Return(FALSE, e, <<Ev("copyFailed", Top.node, Top.to, partial, e)>>)
    /\ UNCHANGED <<src, override, canceled, total, bidx, run, dstPrev, resPrev>>

\* The frame reached `after(entry, allProcessed, ctx)`.
AtAfter ==
    /\ phase = "apply"
    /\ stack # <<>>
    /\ \/ Top.pc = "after"
       \/ Top.pc = "children" /\ Top.idx > Len(src[Top.node].kids)

\* The after callback and the frame's return.
After ==
    /\ UNCHANGED <<davVars, ioVars, listVars>>
    /\ AtAfter
    /\ \/ Return(Top.allProcessed, Nil,
                 <<Ev("after", Top.node, Top.to, Top.allProcessed, Nil)>>)
       \/ Return(FALSE, Err("AfterFailed"),
                 <<Ev("after", Top.node, Top.to, Top.allProcessed, Err("AfterFailed"))>>)
    /\ UNCHANGED <<src, dst, override, canceled, total, bidx, run, dstPrev, resPrev>>

(***************************************************************************)
(* The environment                                                         *)
(***************************************************************************)
\* The task is canceled: the flag goes up once and stays.
Cancel ==
    /\ UNCHANGED <<davVars, ioVars, listVars>>
    /\ phase \in {"build", "list", "built", "apply"}
    /\ ~canceled
    /\ canceled' = TRUE
    /\ log' = Append(log, Ev("cancel", <<>>, <<>>, TRUE, Nil))
    /\ UNCHANGED <<src, dst, override, total, phase, bidx, stack, ret, result,
                   run, dstPrev, resPrev>>

\* The caller copies the same source onto the same destination again, as a
\* new task with a context of its own.
Rerun ==
    /\ UNCHANGED <<davVars, ioVars, listVars>>
    /\ phase = "done"
    /\ run < MaxRuns
    /\ run' = run + 1
    /\ override' \in BOOLEAN
    /\ canceled' = FALSE
    /\ total' = 0
    /\ phase' = "build"
    /\ bidx' = 1
    /\ stack' = <<>>
    /\ ret' = NoRet
    /\ result' = Nil
    /\ log' = <<>>
    /\ dstPrev' = dst
    /\ resPrev' = result
    /\ UNCHANGED <<src, dst>>

\* No WebDAV drive is in use.
DavOff ==
    /\ wfs = <<>>
    /\ wcache = <<>>
    /\ wcacheOn = FALSE
    /\ clients = {}
    /\ wc = <<>>
    /\ ncalls = 0

\* No download and no streaming copy is running.
IoOff ==
    /\ content = <<>>
    /\ dreq = <<>>
    /\ rw = <<>>
    /\ upstream = <<>>
    /\ ipc = "off"
    /\ iret = <<>>
    /\ ictx = <<>>
    /\ rd = <<>>
    /\ cp = <<>>
    /\ tmp = <<>>
    /\ saves = <<>>

\* No List is running.
ListOff ==
    /\ listPrefix = <<>>
    /\ listCache = <<>>
    /\ listCall = <<>>
    /\ listCount = 0
    /\ listCacheOn = FALSE
    /\ listFs = <<>>
    /\ listMut = <<>>
    /\ listEntries = <<>>
    /\ listMuts = 0

Init ==
    /\ src \in SourceTrees
    /\ dst \in DstStates
    /\ override \in BOOLEAN
    /\ canceled = FALSE
    /\ total = 0
    /\ phase = "build"
    /\ bidx = 1
    /\ stack = <<>>
    /\ ret = NoRet
    /\ result = Nil
    /\ run = 1
    /\ log = <<>>
    /\ dstPrev = dst
    /\ resPrev = Err("none")
    /\ DavOff
    /\ IoOff
    /\ ListOff

Next ==
    \/ BuildNode
    \/ BuildList
    \/ StartApply
    \/ Enter
    \/ DstGet
    \/ DirBody
    \/ NextChild
    \/ ChildReturn
    \/ FileBody
    \/ DoCopyEnd
    \/ After
    \/ Cancel
    \/ Rerun

Spec == Init /\ [][Next]_vars

(***************************************************************************)
(* The WebDAV driver (drive/webdav.go)                                     *)
(*                                                                         *)
(* The server holds a few entries; a caller runs one method of the drive   *)
(* at a time, one action per request, cache access or decision.  Every     *)
(* request is answered with the status the server's state calls for, or    *)
(* with a failure status.                                                  *)
(***************************************************************************)
\* Calls made on one drive.
MaxCalls == 3

WRoot == <<>>

WPaths == {<<>>, <<"x">>, <<"y">>, <<"x", "z">>}

\* The paths the calls are made on.
WTargets == {<<"x">>, <<"y">>}

NoW == [type |-> "none", data |-> ""]

WFile(d) == [type |-> "file", data |-> d]

WDir == [type |-> "dir", data |-> ""]

\* The server states a drive can be opened on: the root is a directory and
\* every entry's parent is one.
WStates ==
    {f \in [WPaths -> {NoW, WDir, WFile("dx"), WFile("dy"), WFile("dz")}] :
        /\ f[WRoot] = WDir
        /\ f[<<"x">>] \in {NoW, WDir, WFile("dx")}
        /\ f[<<"y">>] \in {NoW, WDir, WFile("dy")}
        /\ f[<<"x", "z">>] \in {NoW, WFile("dz")}
        /\ f[<<"x", "z">>] # NoW => f[<<"x">>] = WDir}

\* A webDavEntry; self: it belongs to this drive (isSelf).
NoWEntry == [nil |-> TRUE, path |-> <<>>, isDir |-> FALSE, data |-> "", self |-> FALSE]

\* newEntry: the entry of a multi-status response element.
NewEntry(p, res) ==
    [nil |-> FALSE, path |-> p, isDir |-> res.type = "dir", data |-> res.data,
     self |-> TRUE]

\* An entry of another drive.
ForeignEntry(p) ==
    [nil |-> FALSE, path |-> p, isDir |-> FALSE, data |-> "", self |-> FALSE]

\* The drive cache (drive_util, not part of the sources at hand).
CacheGetEntry(cache, on, p) == IF on THEN cache[p] ELSE NoWEntry

CachePutEntry(cache, on, e) == IF on THEN [cache EXCEPT ![e.path] = e] ELSE cache

CacheEvict(cache, p, descendants) ==
    [q \in WPaths |->
        IF q = p \/ (descendants /\ IsPrefix(p, q)) THEN NoWEntry ELSE cache[q]]

\* The statuses a failing server or a refused request answers with.
FaultStatuses == {401, 412, 500}

PropfindStatus(fs, p) == IF fs[p].type = "none" THEN 404 ELSE 207

PutStatus(fs, p) ==
    IF fs[PathParent(p)].type # "dir" THEN 409
    ELSE IF fs[p].type = "dir" THEN 405
    ELSE IF fs[p].type = "none" THEN 201 ELSE 204

\* COPY and MOVE; overwrite is the Overwrite header ("F" or "T").
CopyStatus(fs, from, to, overwrite) ==
    IF fs[from].type = "none" THEN 404
    ELSE IF from = to THEN 403
    ELSE IF fs[PathParent(to)].type # "dir" THEN 409
    ELSE IF fs[to].type # "none" THEN (IF overwrite = "F" THEN 412 ELSE 204)
    ELSE 201

MkcolStatus(fs, p) ==
    IF fs[p].type # "none" THEN 405
    ELSE IF fs[PathParent(p)].type # "dir" THEN 409 ELSE 201

DeleteStatus(fs, p) == IF fs[p].type = "none" THEN 404 ELSE 204

Success(status) == status >= 200 /\ status < 300

RemoveTree(fs, p) == [q \in WPaths |-> IF IsPrefix(p, q) THEN NoW ELSE fs[q]]

PutEffect(fs, p) == [fs EXCEPT ![p] = WFile("new")]

CopyEffect(fs, from, to, move) ==
    LET copied == [RemoveTree(fs, to) EXCEPT ![to] = fs[from]]
    IN IF move THEN RemoveTree(copied, from) ELSE copied

\* err.NewNotFoundError etc., as afterRequest maps the statuses.
ErrorPreconditionFailed == Err("PreconditionFailed")

\* A hook that lets a precondition failure through as a remote error.
AfterRequestNoPrecondition(status) ==
    IF status < 200 \/ status >= 300
    THEN IF status = 404 THEN Err("NotFound")
         ELSE IF status = 401 THEN Err("Unauthorized")
         ELSE Err("RemoteApi")
    ELSE Nil

\* afterRequest
AfterRequest(status) ==
    IF status < 200 \/ status >= 300
    THEN IF status = 404 THEN Err("NotFound")
         ELSE IF status = 412 THEN ErrorPreconditionFailed
         ELSE IF status = 401 THEN Err("Unauthorized")
         ELSE Err("RemoteApi")
    ELSE Nil

\* History of one call: its requests and its cache evictions.
\* body: what resp.XML and the index into its responses make of the body of
\* a PROPFIND answer; "": a multi-status with the entry, or a body not read.
ReqEv(method, p, status) ==
    [kind |-> "req", method |-> method, path |-> p, status |-> status, desc |-> FALSE,
     body |-> ""]

EvictEv(p, descendants) ==
    [kind |-> "evict", method |-> "", path |-> p, status |-> 0, desc |-> descendants,
     body |-> ""]

Ent(p, descendants) == [path |-> p, desc |-> descendants]

IdleCall ==
    [op |-> "idle", pc |-> "idle", path |-> <<>>, from |-> NoWEntry, override |-> FALSE,
     cont |-> "", getPath |-> <<>>, evicts |-> <<>>, thenGet |-> FALSE,
     gotE |-> Nil, gotEntry |-> NoWEntry, err |-> Nil, entry |-> NoWEntry,
     hist |-> <<>>, fs0 |-> <<>>]

\* A call can start: its caller is not inside another one.
CanCall(c) ==
    /\ c \in clients
    /\ wc[c].pc \in {"idle", "done"}
    /\ ncalls < MaxCalls

NewCall(op, p, from, ovr) ==
    [IdleCall EXCEPT !.op = op, !.path = p, !.from = from, !.override = ovr,
                     !.fs0 = wfs]

\* `return entry, e` of the drive's method.
Returned(rec, entry, e) == [rec EXCEPT !.pc = "done", !.entry = entry, !.err = e]

\* w.Get(p) called inside a method, which goes on at cont; "return": the
\* method returns what Get returns.
StartGet(rec, p, cont) == [rec EXCEPT !.pc = "get.lookup", !.getPath = p, !.cont = cont]

EndGet(rec, entry, e) ==
    IF rec.cont = "return" THEN Returned(rec, entry, e)
    ELSE [rec EXCEPT !.pc = rec.cont, !.gotEntry = entry, !.gotE = e]

At(c, pc) == c \in clients /\ wc[c].pc = pc

\* Get(path)
GetCall(c) ==
    /\ CanCall(c)
    /\ \E p \in WTargets :
         wc' = [wc EXCEPT ![c] = StartGet(NewCall("Get", p, NoWEntry, FALSE), p, "return")]
    /\ ncalls' = ncalls + 1
    /\ UNCHANGED <<wfs, wcache, wcacheOn, clients, copyVars, ioVars, listVars>>

\* Get: the cache lookup.
GetLookup(c) ==
    /\ At(c, "get.lookup")
    /\ LET cached == CacheGetEntry(wcache, wcacheOn, wc[c].getPath)
       IN wc' = [wc EXCEPT ![c] = IF ~cached.nil THEN EndGet(@, cached, Nil)
                                  ELSE [@ EXCEPT !.pc = "get.req"]]
    /\ UNCHANGED <<wfs, wcache, wcacheOn, clients, ncalls, copyVars, ioVars, listVars>>

\* The bodies of a PROPFIND answer: a multi-status with the entry (""), one
\* that is not well-formed XML, and a multi-status without a response.
Bodies == {"", "malformed", "empty"}

\* A method of the drive panics: its caller gets no result.
Panicked(rec) == [rec EXCEPT !.pc = "panic"]

\* Get: PROPFIND with Depth 0, the parse of its response (resp.XML) and the
\* first element of it (res.Response[0], an index out of range when there is
\* none).
GetRequest(c) ==
    /\ At(c, "get.req")
    /\ LET p == wc[c].getPath
       IN \E status \in {PropfindStatus(wfs, p)} \cup FaultStatuses, body \in Bodies :
            /\ ~Success(status) => body = ""
            /\ LET e == AfterRequest(status)
                   rec == [wc[c] EXCEPT
                             !.hist = Append(@, [ReqEv("PROPFIND", p, status)
                                                   EXCEPT !.body = body])]
               IN wc' = [wc EXCEPT ![c] =
                            IF e # Nil THEN EndGet(rec, NoWEntry, e)
                            ELSE IF body = "malformed"
                            THEN EndGet(rec, NoWEntry, Err("XML"))
                            ELSE IF body = "empty" THEN Panicked(rec)
                            ELSE [rec EXCEPT !.pc = "get.put",
                                             !.gotEntry = NewEntry(p, wfs[p])]]
    /\ UNCHANGED <<wfs, wcache, wcacheOn, clients, ncalls, copyVars, ioVars, listVars>>

\* Get: the entry is put into the cache and returned.
GetPut(c) ==
    /\ At(c, "get.put")
    /\ wcache' = CachePutEntry(wcache, wcacheOn, wc[c].gotEntry)
    /\ wc' = [wc EXCEPT ![c] = EndGet(@, @.gotEntry, Nil)]
    /\ UNCHANGED <<wfs, wcacheOn, clients, ncalls, copyVars, ioVars, listVars>>

\* Save(path, size, override, reader, ctx): the existence check comes first
\* unless overwriting is allowed.
SaveCall(c) ==
    /\ CanCall(c)
    /\ \E p \in WTargets, ovr \in BOOLEAN :
         LET rec == NewCall("Save", p, NoWEntry, ovr)
         IN wc' = [wc EXCEPT ![c] = IF ~ovr THEN StartGet(rec, p, "save.checked")
                                    ELSE [rec EXCEPT !.pc = "save.put"]]
    /\ ncalls' = ncalls + 1
    /\ UNCHANGED <<wfs, wcache, wcacheOn, clients, copyVars, ioVars, listVars>>

\* A check that takes every answer but a failure for "not there".
IsConflictNever(e) == FALSE

\* Save's check found the path.
IsConflict(e) == e = Nil

\* Save: what the existence check decides.
SaveChecked(c) ==
    /\ At(c, "save.checked")
    /\ LET e == wc[c].gotE
       IN wc' = [wc EXCEPT ![c] =
                    IF e # Nil /\ ~IsNotFoundError(e) THEN Returned(@, NoWEntry, e)
                    ELSE IF IsConflict(e)
                    THEN Returned(@, NoWEntry,
                                  NewNotAllowedMessageError("drive.file_exists", <<>>, <<>>))
                    ELSE [@ EXCEPT !.pc = "save.put"]]
    /\ UNCHANGED <<wfs, wcache, wcacheOn, clients, ncalls, copyVars, ioVars, listVars>>

\* Save: the PUT; on success the parent and the path are to be evicted and
\* the path read again.
SavePut(c) ==
    /\ At(c, "save.put")
    /\ LET p == wc[c].path
       IN \E status \in {PutStatus(wfs, p)} \cup FaultStatuses :
            LET e == AfterRequest(status)
                rec == [wc[c] EXCEPT !.hist = Append(@, ReqEv("PUT", p, status))]
            IN /\ wfs' = IF Success(status) THEN PutEffect(wfs, p) ELSE wfs
               /\ wc' = [wc EXCEPT ![c] =
                            IF e # Nil THEN Returned(rec, NoWEntry, e)
                            ELSE [rec EXCEPT !.pc = "evict", !.thenGet = TRUE,
                                             !.evicts = <<Ent(PathParent(p), FALSE),
                                                          Ent(p, FALSE)>>]]
    /\ UNCHANGED <<wcache, wcacheOn, clients, ncalls, copyVars, ioVars, listVars>>

\* MakeDir(path): MKCOL, then the parent is evicted and the path read.
MakeDirCall(c) ==
    /\ CanCall(c)
    /\ \E p \in WTargets, status \in FaultStatuses \cup {0} :
         LET st == IF status = 0 THEN MkcolStatus(wfs, p) ELSE status
             e == AfterRequest(st)
             rec == [NewCall("MakeDir", p, NoWEntry, FALSE) EXCEPT
                        !.hist = <<ReqEv("MKCOL", p, st)>>]
         IN /\ wfs' = IF Success(st) THEN [wfs EXCEPT ![p] = WDir] ELSE wfs
            /\ wc' = [wc EXCEPT ![c] =
                         IF e # Nil THEN Returned(rec, NoWEntry, e)
                         ELSE [rec EXCEPT !.pc = "evict", !.thenGet = TRUE,
                                          !.evicts = <<Ent(PathParent(p), FALSE)>>]]
    /\ ncalls' = ncalls + 1
    /\ UNCHANGED <<wcache, wcacheOn, clients, copyVars, ioVars, listVars>>

\* Delete(path): DELETE, then the path with its descendants and the parent
\* are evicted.
DeleteCall(c) ==
    /\ CanCall(c)
    /\ \E p \in WTargets, status \in FaultStatuses \cup {0} :
         LET st == IF status = 0 THEN DeleteStatus(wfs, p) ELSE status
             e == AfterRequest(st)
             rec == [NewCall("Delete", p, NoWEntry, FALSE) EXCEPT
                        !.hist = <<ReqEv("DELETE", p, st)>>]
         IN /\ wfs' = IF Success(st) THEN RemoveTree(wfs, p) ELSE wfs
            /\ wc' = [wc EXCEPT ![c] =
                         IF e # Nil THEN Returned(rec, NoWEntry, e)
                         ELSE [rec EXCEPT !.pc = "evict", !.thenGet = FALSE,
                                          !.evicts = <<Ent(p, TRUE),
                                                       Ent(PathParent(p), FALSE)>>]]
    /\ ncalls' = ncalls + 1
    /\ UNCHANGED <<wcache, wcacheOn, clients, copyVars, ioVars, listVars>>

\* The entries a caller can hand to Copy and Move: what the drive holds at
\* the path, or an entry of another drive.
FromEntries ==
    {NewEntry(p, wfs[p]) : p \in {q \in WTargets : wfs[q].type # "none"}}
        \cup {ForeignEntry(<<"x">>)}

\* A destination whose URL cannot be built.
BadTarget == <<"%">>

\* w.c.BuildURL(to): the error of it.
BuildURL(to) == IF to = BadTarget THEN Err("BuildURL") ELSE Nil

\* drive_util.GetIEntry(from, w.isSelf): the drive's own entry, or none.
GetIEntrySelf(from) == IF from.self THEN from ELSE NoWEntry

\* Copy(from, to, override, ctx) and Move: sources that are not files of
\* this drive are refused, and so is a destination without a URL.
CopyOrMoveCall(c) ==
    /\ CanCall(c)
    /\ \E method \in {"COPY", "MOVE"}, f \in FromEntries,
          to \in WTargets \cup {BadTarget}, ovr \in BOOLEAN :
         LET from == GetIEntrySelf(f)
             rec == NewCall(method, to, from, ovr)
         IN wc' = [wc EXCEPT ![c] =
                      IF from.nil \/ from.isDir
                      THEN Returned(rec, NoWEntry, Err("Unsupported"))
                      ELSE IF BuildURL(to) # Nil
                      THEN Returned(rec, NoWEntry, BuildURL(to))
                      ELSE [rec EXCEPT !.pc = "cm.req"]]
    /\ ncalls' = ncalls + 1
    /\ UNCHANGED <<wfs, wcache, wcacheOn, clients, copyVars, ioVars, listVars>>

\* A request that never forbids overwriting.
OverwriteHeaderNone(ovr) == "T"

\* The Overwrite header: "F" when overwriting is not allowed (the server
\* takes an absent header as "T").
OverwriteHeader(ovr) == IF ~ovr THEN "F" ELSE "T"

\* A caller for which a failed precondition is never an error.
BenignAlways(ovr, e) == e = ErrorPreconditionFailed

\* A failed precondition is no error when overwriting was not allowed.
Benign(ovr, e) == ~ovr /\ e = ErrorPreconditionFailed

\* Evictions that leave the source of a MOVE in the cache.
CopyOrMoveEvictsDestOnly(method, from, to) ==
    <<Ent(to, TRUE), Ent(PathParent(to), FALSE)>>

\* copyOrMove: the cache records evicted after the request.
CopyOrMoveEvicts(method, from, to) ==
    <<Ent(to, TRUE), Ent(PathParent(to), FALSE)>>
        \o (IF method = "MOVE"
            THEN <<Ent(from, TRUE), Ent(PathParent(from), FALSE)>>
            ELSE <<>>)

\* copyOrMove: the COPY or MOVE request; then the destination and its
\* parent (and for MOVE the source and its parent) are to be evicted and the
\* destination read.
CopyOrMoveRequest(c) ==
    /\ At(c, "cm.req")
    /\ LET method == wc[c].op
           from == wc[c].from.path
           to == wc[c].path
           ovr == wc[c].override
       IN \E status \in {CopyStatus(wfs, from, to, OverwriteHeader(ovr))}
                           \cup FaultStatuses :
            LET e == AfterRequest(status)
                rec == [wc[c] EXCEPT !.hist = Append(@, ReqEv(method, from, status))]
            IN /\ wfs' = IF Success(status)
                         THEN CopyEffect(wfs, from, to, method = "MOVE")
                         ELSE wfs
               /\ wc' = [wc EXCEPT ![c] =
                            IF e # Nil /\ ~Benign(ovr, e)
                            THEN Returned(rec, NoWEntry, e)
                            ELSE [rec EXCEPT
                                    !.pc = "evict", !.thenGet = TRUE,
                                    !.evicts = CopyOrMoveEvicts(method, from, to)]]
    /\ UNCHANGED <<wcache, wcacheOn, clients, ncalls, copyVars, ioVars, listVars>>

\* w.cache.Evict(path, descendants): the next eviction of the running
\* method; after the last one the method reads the path again or returns.
EvictStep(c) ==
    /\ At(c, "evict")
    /\ wc[c].evicts # <<>>
    /\ LET ev == Head(wc[c].evicts)
           rec == [wc[c] EXCEPT !.evicts = Tail(@),
                                !.hist = Append(@, EvictEv(ev.path, ev.desc))]
       IN /\ wcache' = CacheEvict(wcache, ev.path, ev.desc)
          /\ wc' = [wc EXCEPT ![c] =
                       IF Tail(wc[c].evicts) # <<>> THEN rec
                       ELSE IF rec.thenGet THEN StartGet(rec, rec.path, "return")
                       ELSE Returned(rec, NoWEntry, Nil)]
    /\ UNCHANGED <<wfs, wcacheOn, clients, ncalls, copyVars, ioVars, listVars>>

\* A cache record's time to live runs out.
CacheExpire ==
    /\ clients # {}
    /\ \E p \in WPaths :
         /\ ~wcache[p].nil
         /\ wcache' = [wcache EXCEPT ![p] = NoWEntry]
    /\ UNCHANGED <<wfs, wcacheOn, clients, wc, ncalls, copyVars, ioVars, listVars>>

\* No CopyAll is running.
CopyOff ==
    /\ src = TreeFile
    /\ dst = [p \in DstPaths |-> NoDst]
    /\ override = FALSE
    /\ canceled = FALSE
    /\ total = 0
    /\ phase = "off"
    /\ bidx = 1
    /\ stack = <<>>
    /\ ret = NoRet
    /\ result = Nil
    /\ run = 1
    /\ log = <<>>
    /\ dstPrev = dst
    /\ resPrev = Err("none")

\* The cache of a drive just opened: NewWebDAVDrive ends with Get("/"),
\* which leaves the root's entry in it.
OpenedCache(fs, on) ==
    CachePutEntry([p \in WPaths |-> NoWEntry], on, NewEntry(WRoot, fs[WRoot]))

\* A drive just opened on some server state, used by one caller.
InitDav ==
    /\ CopyOff
    /\ IoOff
    /\ ListOff
    /\ wfs \in WStates
    /\ wcacheOn \in BOOLEAN
    /\ wcache = OpenedCache(wfs, wcacheOn)
    /\ clients = {1}
    /\ wc = [c \in clients |-> IdleCall]
    /\ ncalls = 0

NextDav ==
    \/ \E c \in clients : GetCall(c)
    \/ \E c \in clients : GetLookup(c)
    \/ \E c \in clients : GetRequest(c)
    \/ \E c \in clients : GetPut(c)
    \/ \E c \in clients : SaveCall(c)
    \/ \E c \in clients : SaveChecked(c)
    \/ \E c \in clients : SavePut(c)
    \/ \E c \in clients : MakeDirCall(c)
    \/ \E c \in clients : DeleteCall(c)
    \/ \E c \in clients : CopyOrMoveCall(c)
    \/ \E c \in clients : CopyOrMoveRequest(c)
    \/ \E c \in clients : EvictStep(c)
    \/ CacheExpire

SpecDav == InitDav /\ [][NextDav]_vars

(***************************************************************************)
(* Properties of the copy engine                                           *)
(***************************************************************************)
Done == phase = "done"

FaultKinds == {"ListFailed", "GetFailed", "MakeDirFailed", "CopyFailed", "AfterFailed"}

\* The environment failed a call of the running CopyAll.
Faulted == \E i \in 1..Len(log) : log[i].err.kind \in FaultKinds

\* When the flag went up (0: it has not).
CancelAt == IF OpIdx("cancel") = {} THEN 0 ELSE CHOOSE i \in OpIdx("cancel") : TRUE

\* The events that put a file at the destination.
IsWrite(ev) == ev.op = "copied" \/ (ev.op = "copyFailed" /\ ev.flag)

\* The call started on a destination path that did not exist.
FreshDst == dstPrev[DstRoot].type = "none"

RECURSIVE SumSizes(_, _)
SumSizes(t, S) ==
    IF S = {} THEN 0
    ELSE LET p == CHOOSE q \in S : TRUE IN t[p].size + SumSizes(t, S \ {p})

\* Source node n was skipped / returned without error.
Skipped(n) == EvIdx("skip", n) # {}

ReturnedNil(n) == \E i \in EvIdx("return", n) : log[i].err = Nil

(* C1, as claimed: on a fresh destination and with no failure, a flag that  *)
(* goes up while fewer than all N files are copied makes CopyAll return the *)
(* canceled error, whenever in the walk it goes up.                         *)
C1_CanceledAnywhere ==
    (Done /\ FreshDst /\ ~Faulted /\ CancelAt > 0
       /\ Cardinality({i \in OpIdx("copied") : i < CancelAt})
            < Cardinality(FileNodes(src)))
    => result = ErrorCanceled

(* C1, amended: when the flag goes up before copyAll has entered (passed   *)
(* the poll of) every node, CopyAll returns an error, the canceled one      *)
(* unless a call failed or a type mismatch was met after the flag went up;  *)
(* the files copied before are at the destination; no copyAll call passes   *)
(* its poll after the flag went up; and after the flag went up at most one  *)
(* file is written, the file of the copyAll call that had passed its poll   *)
(* when the flag went up, whose copy primitive is running then or is        *)
(* called only afterwards.                                                  *)
C1_CanceledBeforeLastPoll ==
    (CancelAt > 0
       /\ Cardinality({i \in OpIdx("enter") : i < CancelAt}) < Cardinality(Nodes(src)))
    => /\ Done => result # Nil
       /\ (Done /\ result # ErrorCanceled) =>
             \E j \in 1..Len(log) :
                /\ j > CancelAt
                /\ log[j].err = result
                /\ result.kind \in FaultKinds \cup {"NotAllowed"}
       /\ \A i \in OpIdx("copied") : i < CancelAt => dst[log[i].to].type = "file"
       /\ \A i \in OpIdx("enter") : i < CancelAt
       /\ Cardinality({j \in 1..Len(log) : j > CancelAt /\ IsWrite(log[j])}) <= 1
       /\ \A j \in 1..Len(log) :
             (j > CancelAt /\ (IsWrite(log[j]) \/ log[j].op = "doCopy")) =>
                \E i \in EvIdx("enter", log[j].node) :
                   /\ i < CancelAt
                   /\ \A k \in OpIdx("enter") : k <= i

\* The flag went up after a file's copyAll call had passed its poll and
\* before its copy primitive was called; the primitive was called all the
\* same and wrote the file, nothing was written after it, and CopyAll
\* returned the canceled error.
C1_Witness ==
    /\ Done
    /\ result = ErrorCanceled
    /\ \E e \in OpIdx("enter"), i \in OpIdx("doCopy"), j \in OpIdx("copied") :
          /\ e < CancelAt /\ CancelAt < i /\ i < j
          /\ log[e].node = log[i].node
          /\ log[i].node = log[j].node
    /\ Cardinality(OpIdx("copied")) < Cardinality(FileNodes(src))

(* C2, as claimed: the after callback is invoked exactly once for every     *)
(* node processed without error, a skipped file included, which gets the    *)
(* flag false.                                                              *)
C2_AfterForEveryNode ==
    \A n \in Nodes(src) :
        ReturnedNil(n) =>
            /\ Count("after", n) = 1
            /\ Skipped(n) => \A i \in EvIdx("after", n) : ~log[i].flag

(* C2, amended: the after callback is invoked exactly once for every node   *)
(* that was copied or descended into without error, with the flag the node  *)
(* returns; for a skipped file it is not invoked at all, the node only      *)
(* returns false to its caller.                                             *)
C2_AfterUnlessSkipped ==
    \A n \in Nodes(src) :
        /\ Count("after", n) <= 1
        /\ ReturnedNil(n) =>
              IF Skipped(n)
              THEN /\ Count("after", n) = 0
                   /\ \A i \in EvIdx("return", n) : ~log[i].flag
              ELSE /\ Count("after", n) = 1
                   /\ \A i \in EvIdx("after", n), j \in EvIdx("return", n) :
                         log[i].flag = log[j].flag /\ i < j

\* A call that skipped one file and copied another.
C2_Witness ==
    /\ Done
    /\ result = Nil
    /\ \E n \in FileNodes(src) : Skipped(n) /\ ReturnedNil(n)
    /\ \E n \in FileNodes(src) : Count("copied", n) = 1 /\ Count("after", n) = 1

\* The running call repeats a call that returned no error, and may not overwrite.
SecondRun == run > 1 /\ resPrev = Nil /\ ~override

(* C3, as claimed: for every source tree the repeated call returns no       *)
(* error, calls neither the copy primitive nor MakeDir, leaves the          *)
(* destination as it was, and reports the root as not fully processed.      *)
C3_SecondRunNotProcessed ==
    (SecondRun /\ Done /\ ~Faulted /\ ~canceled)
    => /\ result = Nil
       /\ OpIdx("doCopy") = {} /\ OpIdx("MakeDir") = {}
       /\ dst = dstPrev
       /\ ret.r = FALSE

(* C3, amended: the repeated call never calls the copy primitive or MakeDir *)
(* and leaves the destination as it was; without failure or cancellation it *)
(* returns no error, and it reports the root as not fully processed exactly *)
(* when the tree holds at least one file (a tree of directories alone has   *)
(* nothing to skip and is reported fully processed).                        *)
C3_SecondRunSkips ==
    SecondRun
    => /\ OpIdx("doCopy") = {} /\ OpIdx("MakeDir") = {}
       /\ dst = dstPrev
       /\ (Done /\ ~Faulted /\ ~canceled) =>
             /\ result = Nil
             /\ ret.r = (FileNodes(src) = {})
             /\ \A n \in FileNodes(src) : Skipped(n)

\* The example tree copied a second time: both files skipped.
C3_Witness ==
    /\ SecondRun /\ Done /\ ~Faulted /\ ~canceled
    /\ src = TreeExample
    /\ result = Nil
    /\ Cardinality(OpIdx("skip")) = 2
    /\ \E p \in DstPaths : dst[p].type = "file" /\ dst[p].by = run - 1

(* C4: a copy onto a destination path that does not exist, with no failure  *)
(* and no cancellation, returns nil, calls MakeDir once per directory and   *)
(* the copy primitive once per file at the mirrored path, looks up only the *)
(* root, invokes after once per node with flag true, and leaves the total   *)
(* at the sum of the file sizes.                                            *)
C4_FreshCopy ==
    (Done /\ FreshDst /\ ~Faulted /\ ~canceled)
    => /\ result = Nil
       /\ \A n \in DirNodes(src) :
             /\ Count("MakeDir", n) = 1 /\ Count("doCopy", n) = 0
             /\ \A i \in EvIdx("MakeDir", n) : log[i].to = Mirror(n)
       /\ \A n \in FileNodes(src) :
             /\ Count("doCopy", n) = 1 /\ Count("MakeDir", n) = 0
             /\ Count("copied", n) = 1
             /\ \A i \in EvIdx("doCopy", n) : log[i].to = Mirror(n)
             /\ dst[Mirror(n)] = [type |-> "file", by |-> run]
       /\ \A i \in OpIdx("Get") : log[i].node = SrcRoot
       /\ Count("Get", SrcRoot) = 1
       /\ \A n \in Nodes(src) :
             /\ Count("after", n) = 1
             /\ \A i \in EvIdx("after", n) : log[i].flag
       /\ total = SumSizes(src, FileNodes(src))

\* The example: /a/f1 of 10 bytes and /a/b/f2 of 5 give 4 callbacks, total 15.
C4_Witness ==
    /\ Done /\ FreshDst /\ ~Faulted /\ ~canceled
    /\ src = TreeExample
    /\ Cardinality(OpIdx("after")) = 4
    /\ total = 15

\* The destination's type is the opposite of the source node's.
Opposite(n, to) ==
    \/ IsDir(src[n]) /\ dst[to].type = "file"
    \/ IsFile(src[n]) /\ dst[to].type = "dir"

\* The first event of the walk after event i (0: there is none yet).
CallAfter(i) ==
    LET later == {j \in 1..Len(log) : j > i /\ log[j].op # "cancel"}
    IN IF later = {} THEN 0 ELSE CHOOSE j \in later : \A k \in later : j <= k

(* C5: a node whose destination is found to be of the other type fails with *)
(* a NotAllowed error naming both paths; neither MakeDir, nor the copy      *)
(* primitive, nor after is called for it; a mismatch at the root leaves the *)
(* destination as it was.                                                   *)
C5_TypeMismatch ==
    /\ \A i \in OpIdx("Get") :
          (log[i].flag /\ Opposite(log[i].node, log[i].to) /\ CallAfter(i) > 0) =>
             LET ev == log[CallAfter(i)]
             IN /\ ev.op = "return"
                /\ ev.node = log[i].node
                /\ ev.err =
                      NewNotAllowedMessageError(
                          IF IsDir(src[log[i].node]) THEN "drive.copy_type_mismatch1"
                          ELSE "drive.copy_type_mismatch2",
                          log[i].node, log[i].to)
    /\ \A i \in OpIdx("return") :
          (log[i].err.kind = "NotAllowed" /\ log[i].err.from = log[i].node) =>
             /\ log[i].err.to = log[i].to
             /\ Count("MakeDir", log[i].node) = 0
             /\ Count("doCopy", log[i].node) = 0
             /\ Count("after", log[i].node) = 0
    /\ (Done /\ result.kind = "NotAllowed" /\ result.from = SrcRoot) => dst = dstPrev

\* A file met a directory below the root, and CopyAll returned the error
\* naming the two paths.
C5_Witness ==
    /\ Done
    /\ result = NewNotAllowedMessageError("drive.copy_type_mismatch2",
                                          <<"a", "f1">>, <<"dst", "f1">>)
    /\ dst[<<"dst", "f1">>].type = "dir"

\* A file beneath (or at) n was skipped.
SkippedBeneath(n) == \E m \in FileNodes(src) : IsPrefix(n, m) /\ Skipped(m)

(* C6: the flag a directory passes to after, and returns, is true exactly   *)
(* when no file beneath it was skipped; a skip is no error, and the walk    *)
(* goes on: a call that returns nil has entered every node.                 *)
C6_FullyProcessed ==
    /\ \A n \in DirNodes(src) :
          /\ \A i \in EvIdx("after", n) : log[i].flag = ~SkippedBeneath(n)
          /\ \A i \in EvIdx("return", n) :
                log[i].err = Nil => log[i].flag = ~SkippedBeneath(n)
    /\ \A i \in OpIdx("skip") :
          log[i + 1].op = "return" /\ log[i + 1].err = Nil /\ ~log[i + 1].flag
    /\ (Done /\ result = Nil) => \A n \in Nodes(src) : Count("enter", n) = 1

\* A file two levels down was skipped, its sibling-to-be was copied after
\* it, and both directories above it were reported not fully processed.
C6_Witness ==
    /\ Done /\ result = Nil
    /\ src = TreeDeepFirst
    /\ Skipped(<<"a", "b", "f2">>)
    /\ \E i \in EvIdx("skip", <<"a", "b", "f2">>), j \in EvIdx("copied", <<"a", "f1">>) : i < j
    /\ \E i \in EvIdx("after", <<"a", "b">>) : ~log[i].flag
    /\ \E i \in EvIdx("after", <<"a">>) : ~log[i].flag
    /\ \E i \in EvIdx("after", <<"a", "f1">>) : log[i].flag

\* Event i carries an error copyAll acts upon (a not-found lookup is none).
IsFailure(i) ==
    /\ log[i].err # Nil
    /\ ~(log[i].op = "Get" /\ IsNotFoundError(log[i].err))

(* C7: once a listing, a lookup, MakeDir, the copy primitive or after has   *)
(* failed, or cancellation was observed, nothing but returns follows, each  *)
(* carrying that very error, and CopyAll returns it.                        *)
C7_FailureStops ==
    \A i \in 1..Len(log) :
        IsFailure(i) =>
            /\ \A j \in 1..Len(log) :
                  j > i => \/ log[j].op = "cancel"
                           \/ log[j].op = "return" /\ log[j].err = log[i].err
            /\ Done => result = log[i].err
            /\ log[i].op \in {"listFailed", "buildCanceled"} =>
                  (Done /\ stack = <<>> /\ i = Len(log))

\* The copy primitive failed two levels down and CopyAll returned its error.
C7_Witness ==
    /\ Done
    /\ result = Err("CopyFailed")
    /\ \E i \in EvIdx("copyFailed", <<"a", "b", "f2">>) :
          Cardinality({j \in OpIdx("return") : j > i}) = 3

(***************************************************************************)
(* Properties of the WebDAV driver                                         *)
(***************************************************************************)
ReqIdx(r, method) ==
    {i \in 1..Len(r.hist) : r.hist[i].kind = "req" /\ r.hist[i].method = method}

EvictIdx(r) == {i \in 1..Len(r.hist) : r.hist[i].kind = "evict"}

\* No request of the call was answered with a failure status or with a
\* body that cannot be read.
Unfailed(r) ==
    \A i \in 1..Len(r.hist) :
        r.hist[i].kind = "req" =>
            /\ r.hist[i].status \notin {401, 500}
            /\ r.hist[i].body = ""
            /\ r.hist[i].method = "PROPFIND" => r.hist[i].status # 412

FileExists == NewNotAllowedMessageError("drive.file_exists", <<>>, <<>>)

\* The call is a Save that may not overwrite / its existence check was
\* answered with status st.
SaveNoOverride(r) == r.op = "Save" /\ ~r.override

CheckAnswered(r, st) ==
    /\ r.hist # <<>>
    /\ r.hist[1].method = "PROPFIND"
    /\ r.hist[1].status = st

(* C8: a Save that may not overwrite, on a path that exists at the server,  *)
(* issues no PUT, evicts nothing and leaves the server as it was; it        *)
(* returns NotAllowed, or the error of a failed check; a check answered     *)
(* not-found goes on to the PUT, and one that failed otherwise returns its  *)
(* error without a PUT.                                                     *)
C8_SaveNoOverride ==
    \A c \in clients :
        LET r == wc[c]
        IN SaveNoOverride(r) =>
            /\ r.fs0[r.path].type # "none" =>
                  /\ ReqIdx(r, "PUT") = {}
                  /\ EvictIdx(r) = {}
                  /\ wfs = r.fs0
                  /\ r.pc = "done" =>
                        /\ r.err # Nil
                        /\ Unfailed(r) => r.err = FileExists
                        /\ r.err # FileExists =>
                              r.err \in {Err("Unauthorized"), Err("RemoteApi"),
                                         ErrorPreconditionFailed, Err("XML")}
            /\ (CheckAnswered(r, 404) /\ r.pc = "done") => ReqIdx(r, "PUT") # {}
            /\ \A st \in FaultStatuses :
                  CheckAnswered(r, st) =>
                     /\ Len(r.hist) = 1
                     /\ r.pc \in {"save.checked", "done"}
                     /\ r.pc = "done" =>
                           r.err = (IF st = 401 THEN Err("Unauthorized")
                                    ELSE IF st = 412 THEN ErrorPreconditionFailed
                                    ELSE Err("RemoteApi"))

\* A Save that may not overwrite met an existing file and was refused after
\* asking the server.
C8_Witness ==
    \E c \in clients :
        LET r == wc[c]
        IN /\ SaveNoOverride(r) /\ r.pc = "done"
           /\ r.fs0[r.path] = WFile("dx")
           /\ r.err = FileExists
           /\ r.hist = <<ReqEv("PROPFIND", r.path, 207)>>

\* The call is a Copy or Move of a file of this drive onto another path
\* that exists, and may not overwrite.
CopyOntoExisting(r) ==
    /\ r.op \in {"COPY", "MOVE"}
    /\ ~r.override
    /\ ~r.from.nil /\ ~r.from.isDir
    /\ r.from.path # r.path
    /\ r.path \in WPaths
    /\ r.fs0[r.path].type # "none"

(* C9, as claimed: Copy and Move that may not overwrite fail with           *)
(* NotAllowed when the destination exists.                                  *)
C9_CopyMoveConflict ==
    \A c \in clients :
        LET r == wc[c]
        IN (CopyOntoExisting(r) /\ r.pc = "done" /\ Unfailed(r)) =>
              r.err.kind = "NotAllowed"

(* C9, amended: Copy and Move that may not overwrite never change an        *)
(* existing destination (nor, for Move, the source), but they do not fail   *)
(* with NotAllowed: the server's 412 is taken as a no-op, the cache is      *)
(* evicted, and the call returns the entry of the destination as it was,    *)
(* without error, unless a request failed.                                  *)
C9_CopyMoveNoOverwrite ==
    \A c \in clients :
        LET r == wc[c]
        IN CopyOntoExisting(r) =>
            /\ wfs = r.fs0
            /\ r.err.kind # "NotAllowed"
            /\ (r.pc = "done" /\ Unfailed(r)) =>
                  /\ r.err = Nil
                  /\ r.entry = NewEntry(r.path, r.fs0[r.path])
                  /\ \E i \in ReqIdx(r, r.op) : r.hist[i].status = 412

\* A Copy onto an existing file that may not overwrite returned the old
\* destination's entry and no error.
C9_Witness ==
    \E c \in clients :
        LET r == wc[c]
        IN /\ CopyOntoExisting(r) /\ r.op = "COPY" /\ r.pc = "done"
           /\ r.from.data = "dx"
           /\ r.err = Nil
           /\ r.entry.data = "dy"
           /\ wfs[r.path] = WFile("dy")

\* What copyOrMove does after a request that succeeded or is passed over.
GoesOn(r) ==
    LET to == r.path
        expected ==
            <<EvictEv(to, TRUE), EvictEv(PathParent(to), FALSE)>>
            \o (IF r.op = "MOVE"
                THEN <<EvictEv(r.from.path, TRUE), EvictEv(PathParent(r.from.path), FALSE)>>
                ELSE <<>>)
        n == Len(expected)
    IN /\ r.pc = "done" =>
            /\ Len(r.hist) = n + 2
            /\ SubSeq(r.hist, 2, n + 1) = expected
            /\ r.hist[n + 2].method = "PROPFIND" /\ r.hist[n + 2].path = to
            /\ (r.hist[n + 2].status = 207 /\ r.hist[n + 2].body = "") =>
                  (r.err = Nil /\ ~r.entry.nil)
            /\ r.hist[n + 2].body = "malformed" => r.err = Err("XML")
            /\ r.hist[n + 2].status = 404 => r.err = Err("NotFound")
       /\ r.pc # "done" => r.err = Nil

\* copyOrMove returns the request's error at once.
StopsWith(r, e) ==
    /\ r.pc = "done"
    /\ r.err = e
    /\ r.entry.nil
    /\ Len(r.hist) = 1

(* C10: a 412 answer to COPY or MOVE is passed over, on to the evictions    *)
(* and the final Get, only when overwriting was not allowed; when it was    *)
(* allowed the 412, like every other failure, is returned and nothing is    *)
(* evicted.                                                                 *)
C10_PreconditionFailed ==
    \A c \in clients :
        LET r == wc[c]
        IN (r.op \in {"COPY", "MOVE"} /\ r.hist # <<>>) =>
            LET st == r.hist[1].status
            IN /\ r.hist[1].method = r.op
               /\ (st = 412 /\ ~r.override) => GoesOn(r)
               /\ (st = 412 /\ r.override) => StopsWith(r, ErrorPreconditionFailed)
               /\ st = 401 => StopsWith(r, Err("Unauthorized"))
               /\ st = 404 => StopsWith(r, Err("NotFound"))
               /\ st \in {403, 409, 500} => StopsWith(r, Err("RemoteApi"))
               /\ st \in {201, 204} => GoesOn(r)

\* A Move that may overwrite was answered 412 and returned that error with
\* the cache untouched.
C10_Witness ==
    \E c \in clients :
        LET r == wc[c]
        IN /\ r.op = "MOVE" /\ r.override /\ r.pc = "done"
           /\ r.hist = <<ReqEv("MOVE", r.from.path, 412)>>
           /\ r.err = ErrorPreconditionFailed
           /\ \E p \in WPaths : ~wcache[p].nil

\* The methods of the requests that change the server.
MutationMethods == {"PUT", "MKCOL", "DELETE", "COPY", "MOVE"}

\* Where in the call's history its mutating request succeeded; 0: nowhere.
MutIdx(r) ==
    LET S == {i \in 1..Len(r.hist) :
                /\ r.hist[i].kind = "req"
                /\ r.hist[i].method \in MutationMethods
                /\ Success(r.hist[i].status)}
    IN IF S = {} THEN 0 ELSE CHOOSE i \in S : TRUE

\* The record of p (with its descendants if desc) was evicted after the
\* mutation and before anything else but evictions was done.
EvictedFirst(r, p, desc) ==
    \E i \in EvictIdx(r) :
        /\ i > MutIdx(r)
        /\ r.hist[i].path = p
        /\ desc => r.hist[i].desc
        /\ \A j \in (MutIdx(r) + 1)..i : r.hist[j].kind = "evict"

\* The call has mutated the server and is past its evictions: it reads the
\* destination again or has returned.
PastEvictions(r) == MutIdx(r) # 0 /\ r.pc # "evict"

\* The evictions a mutation owes; makeDirDest: MakeDir owes the one of its
\* destination too.
OwedEvictions(r, makeDirDest) ==
    LET p == r.path
        dest == {Ent(p, r.op \in {"Delete", "COPY", "MOVE"})}
        parent == {Ent(PathParent(p), FALSE)}
        source == {Ent(r.from.path, TRUE), Ent(PathParent(r.from.path), FALSE)}
    IN (IF r.op = "MakeDir" /\ ~makeDirDest THEN {} ELSE dest)
       \cup parent
       \cup (IF r.op = "MOVE" THEN source ELSE {})

(* C11 as stated: every successful Save, MakeDir, Delete, Copy and Move     *)
(* evicts the record of its destination and of the destination's parent     *)
(* before it reads the destination again or returns; Move also evicts the   *)
(* source with its descendants and the source's parent.                     *)
C11_EvictEveryDestination ==
    \A c \in clients :
        LET r == wc[c]
        IN PastEvictions(r) =>
            \A ev \in OwedEvictions(r, TRUE) : EvictedFirst(r, ev.path, ev.desc)

(* C11: every successful Save, Delete, Copy and Move evicts the record of   *)
(* its destination (with descendants for Delete, Copy and Move) and of the  *)
(* destination's parent before it reads the destination again or returns;   *)
(* Move also evicts the source with its descendants and the source's        *)
(* parent; a successful MakeDir evicts the parent's record only, never the  *)
(* one of the directory it made.                                            *)
C11_EvictionProtocol ==
    \A c \in clients :
        LET r == wc[c]
        IN PastEvictions(r) =>
            /\ \A ev \in OwedEvictions(r, FALSE) : EvictedFirst(r, ev.path, ev.desc)
            /\ r.op = "MakeDir" =>
                  \A i \in EvictIdx(r) : r.hist[i].path # r.path

\* A Move onto another path succeeded at the server and has returned, the
\* cache being in use.
C11_Witness ==
    \E c \in clients :
        LET r == wc[c]
        IN /\ r.op = "MOVE" /\ r.pc = "done" /\ r.err = Nil
           /\ MutIdx(r) = 1
           /\ r.from.path # r.path
           /\ Cardinality(EvictIdx(r)) = 4
           /\ wcacheOn

(***************************************************************************)
(* Content delivery and the streaming copy (drive_util)                    *)
(*                                                                         *)
(* One routine runs at a time on one content: DownloadIContent, CopyEntry  *)
(* or CopyReaderToTempFile, one action per call it makes.  HTTP headers    *)
(* are sets of <<name, value>> pairs; a types.SM keeps apart the nil map   *)
(* and the empty one; a stream is a sequence of chunks.                    *)
(***************************************************************************)
\* Chunks of the longest stream copied.
MaxChunks == 3

\* Header.Set, Header.Del
HSet(h, k, v) == {x \in h : x[1] # k} \cup {<<k, v>>}

HDel(h, k) == {x \in h : x[1] # k}

HNames(h) == {x[1] : x \in h}

\* types.SM: a map that is not nil, and the nil one.
SM(m) == [isNil |-> FALSE, m |-> m]

NilSM == [isNil |-> TRUE, m |-> {}]

\* types.ContentURL
ContentURL(url, proxy, header) == [url |-> url, proxy |-> proxy, header |-> header]

NoURL == ContentURL("", FALSE, NilSM)

\* The chunks of a content of n chunks.
Chunks(n) == [i \in 1..n |-> i]

\* A types.IContent.  kind "webdav": a webDavEntry of a drive opened with
\* username (and password "p") whose client can build URLs or not; kind
\* "other": a content of another drive, whose GetURL answers with a plain
\* URL, a proxy-required one, one with extra headers, one with a header map
\* that is empty but not nil, one that does not parse, Unsupported or
\* another failure.  reader: what GetReader hands out;
\* size: the size field, which is also the number of chunks the backend
\* streams for the content.
Content(kind, isFile, username, buildOk, url, reader, size) ==
    [kind |-> kind, isFile |-> isFile, username |-> username, buildOk |-> buildOk,
     url |-> url, reader |-> reader, size |-> size, readable |-> TRUE]

NoContent == Content("none", FALSE, "", FALSE, "", "", 0)

WebDavContents ==
    {Content("webdav", f, u, b, "", r, n) :
        f \in BOOLEAN, u \in {"", "u"}, b \in BOOLEAN, r \in {"stream", "error"},
        n \in {0, MaxChunks}}

OtherContents ==
    {Content("other", TRUE, "", TRUE, u, r, n) :
        u \in {"plain", "proxy", "header", "emptyheader", "bad", "unsupported", "failure"},
        r \in {"seekable", "stream", "error"}, n \in {0, MaxChunks}}

\* An entry that is no types.IContent.
Unreadable == [Content("other", TRUE, "", TRUE, "unsupported", "error", MaxChunks)
                  EXCEPT !.readable = FALSE]

Contents == WebDavContents \cup OtherContents

\* content.Size(): the size field of the entry; a webDavEntry that is a
\* directory answers -1 whatever the field holds.
ContentSize(c) == IF c.kind = "webdav" /\ ~c.isFile THEN -1 ELSE c.size

\* strconv.FormatInt(n, 10)
FormatInt(n) ==
    IF n = -1 THEN "-1"
    ELSE IF n < 10 THEN <<"0", "1", "2", "3", "4", "5", "6", "7", "8", "9">>[n + 1]
    ELSE "many"

\* base64.StdEncoding.EncodeToString of username:password
Base64(username, password) ==
    IF username = "u" /\ password = "p" THEN "dTpw" ELSE "?"

\* webDavEntry.GetURL
WebDavGetURL(c) ==
    IF ~c.isFile THEN [u |-> NoURL, e |-> Err("NotAllowed")]
    ELSE IF ~c.buildOk THEN [u |-> NoURL, e |-> Err("BuildURL")]
    ELSE LET header == IF c.username # ""
                       THEN SM({<<"Authorization", "Basic " \o Base64(c.username, "p")>>})
                       ELSE NilSM
         IN [u |-> ContentURL("http://dav/f", TRUE, header), e |-> Nil]

\* content.GetURL()
ContentGetURL(c) ==
    IF c.kind = "webdav" THEN WebDavGetURL(c)
    ELSE IF c.url = "plain" THEN [u |-> ContentURL("http://cdn/f", FALSE, NilSM), e |-> Nil]
    ELSE IF c.url = "proxy" THEN [u |-> ContentURL("http://cdn/f", TRUE, NilSM), e |-> Nil]
    ELSE IF c.url = "header"
    THEN [u |-> ContentURL("http://cdn/f", FALSE, SM({<<"X-Token", "t">>})), e |-> Nil]
    ELSE IF c.url = "emptyheader"
    THEN [u |-> ContentURL("http://cdn/f", FALSE, SM({})), e |-> Nil]
    ELSE IF c.url = "bad" THEN [u |-> ContentURL("%", TRUE, NilSM), e |-> Nil]
    ELSE IF c.url = "unsupported" THEN [u |-> NoURL, e |-> Err("Unsupported")]
    ELSE [u |-> NoURL, e |-> Err("RemoteApi")]

\* err.IsUnsupportedError
IsUnsupportedError(e) == e.kind = "Unsupported"

\* url.Parse
UrlParse(url) == IF url = "%" THEN Err("UrlParse") ELSE Nil

\* The request of a download: forceProxy, the method and the headers the
\* requester sent.
DownloadReq(forceProxy, method, header) ==
    [op |-> "DownloadIContent", forceProxy |-> forceProxy, method |-> method,
     header |-> header]

\* The arguments of a routine that serves no request.
CopyReq(op) == [op |-> op, forceProxy |-> FALSE, method |-> "", header |-> {}]

NoReq == CopyReq("")

\* The time a content was modified last, and an If-Modified-Since between.
ModTimes == {0, 1, 2}

FormatTime(t) == "t" \o FormatInt(t)

RequesterHeaders ==
    {{},
     {<<"Referer", "r">>, <<"Authorization", "mine">>, <<"Range", "bytes=0-">>,
      <<"Connection", "keep-alive">>},
     {<<"If-Modified-Since", FormatTime(1)>>}}

\* An http.ResponseWriter.  header: its header map; committed: the status
\* line and headers have been sent, as sent; deferred: a writer that records
\* WriteHeader's status and sends it with the first Write or when the
\* handler is through.
Writer(deferred) ==
    [deferred |-> deferred, committed |-> FALSE, status |-> 0, noted |-> 0,
     header |-> {}, sent |-> {}, body |-> <<>>]

NoWriter == Writer(FALSE)

\* The status line and the header map as it is now go out.
Commit(w, code) ==
    IF w.committed THEN w
    ELSE [w EXCEPT !.committed = TRUE, !.status = code, !.sent = w.header]

\* ResponseWriter.WriteHeader
WriteHeader(w, code) ==
    IF w.committed THEN w
    ELSE IF w.deferred THEN [w EXCEPT !.noted = code]
    ELSE Commit(w, code)

\* ResponseWriter.Header().Set
SetHeader(w, k, v) == [w EXCEPT !.header = HSet(@, k, v)]

\* ResponseWriter.Write: the first one sends the status line and headers.
WriteBody(w, data) ==
    [Commit(w, IF w.noted # 0 THEN w.noted ELSE 200) EXCEPT !.body = @ \o data]

\* The handler is through: what has not been sent goes out.
Flush(w) == Commit(w, IF w.noted # 0 THEN w.noted ELSE 200)

NoUpstream == [sent |-> FALSE, url |-> "", header |-> {}]

\* The Director of the reverse proxy: the request as the proxy is told to
\* forward it; the loop over a nil u.Header sets nothing.
Director(header, u) ==
    LET stripped == HDel(HDel(header, "Referer"), "Authorization")
    IN [sent |-> TRUE, url |-> u.url,
        header |-> {x \in stripped : x[1] \notin HNames(u.header.m)} \cup u.header.m]

\* The headers a proxy keeps to its own connection.
HopByHop == {"Connection"}

RemoveHopByHop(h) == {x \in h : x[1] \notin HopByHop}

\* The request as httputil.ReverseProxy sends it: the Director's, without
\* the hop-by-hop headers and with the requester's address.
Forwarded(up) ==
    [up EXCEPT !.header = HSet(RemoveHopByHop(@), "X-Forwarded-For", "client")]

\* What the upstream answers to a forwarded request for content c.
UpstreamAnswer(status, header, body) ==
    [status |-> status, header |-> header, body |-> body]

UpstreamAnswers(c) ==
    LET length == <<"Content-Length", FormatInt(c.size)>>
    IN {UpstreamAnswer(200, {length}, Chunks(c.size)),
        UpstreamAnswer(200, {length, <<"Content-Type", "type">>,
                             <<"Connection", "close">>}, Chunks(c.size)),
        UpstreamAnswer(404, {<<"Content-Length", "0">>}, <<>>)}

\* The text of an http.Error, which is no chunk of a content.
ErrorText == <<0>>

\* http.Error(w, text, code)
HttpError(w, code) ==
    WriteBody(WriteHeader(SetHeader(SetHeader(w, "Content-Type", "text/plain; charset=utf-8"),
                                    "X-Content-Type-Options", "nosniff"),
                          code),
              ErrorText)

\* The net/http a build links: "ranged" answers a Range on empty content
\* with 416 and "plain" with 200; "bare" does so too and takes
\* Last-Modified out of an error answer.
Builds == {"ranged", "plain", "bare"}

NoResult == [returned |-> FALSE, e |-> Nil]

IoReturn(e) == [returned |-> TRUE, e |-> e]

\* DownloadIContent(content, w, req, forceProxy)
DownloadCall ==
    /\ ipc = "idle"
    /\ content' \in Contents
    /\ \E fp \in BOOLEAN, m \in {"GET", "HEAD"}, h \in RequesterHeaders :
         dreq' = DownloadReq(fp, m, h)
    /\ \E d \in BOOLEAN : rw' = Writer(d)
    /\ ipc' = "dl.url"
    /\ UNCHANGED <<upstream, iret, ictx, rd, cp, tmp, saves, copyVars, davVars, listVars>>

\* DownloadIContent: content.GetURL() and what is done with its answer.
DlGetURL ==
    /\ ipc = "dl.url"
    /\ LET g == ContentGetURL(content)
       IN IF g.e = Nil
          THEN /\ ipc' = IF g.u.proxy \/ dreq.forceProxy \/ ~g.u.header.isNil
                         THEN "dl.proxy" ELSE "dl.status"
               /\ UNCHANGED iret
          ELSE IF ~IsUnsupportedError(g.e)
          THEN ipc' = "done" /\ iret' = IoReturn(g.e)
          ELSE ipc' = "dl.reader" /\ UNCHANGED iret
    /\ UNCHANGED <<content, dreq, rw, upstream, ictx, rd, cp, tmp, saves,
                   copyVars, davVars, listVars>>

\* DownloadIContent: the request is forwarded by a reverse proxy and the
\* answer relayed.  The upstream cannot be reached: 502 on the header map as
\* it is.  It answers: its headers and status are relayed, then its body,
\* of which n chunks get through; a relay that breaks off makes the proxy
\* panic with http.ErrAbortHandler, which the deferred function recovers,
\* and DownloadIContent returns nil.  A panic with another value is raised
\* again.
DlProxy ==
    /\ ipc = "dl.proxy"
    /\ LET u == ContentGetURL(content).u
           e == UrlParse(u.url)
       IN IF e # Nil
          THEN /\ iret' = IoReturn(e)
               /\ ipc' = "done"
               /\ UNCHANGED <<rw, upstream>>
          ELSE /\ upstream' = Forwarded(Director(dreq.header, u))
               /\ \/ /\ rw' = Flush(WriteHeader(rw, 502))
                     /\ iret' = IoReturn(Nil)
                     /\ ipc' = "done"
                  \/ \E a \in UpstreamAnswers(content) :
                       \E n \in 0..Len(a.body) :
                          LET relayed ==
                                WriteHeader([rw EXCEPT !.header = @ \cup RemoveHopByHop(a.header)],
                                            a.status)
                              got == IF dreq.method = "HEAD" THEN <<>>
                                     ELSE SubSeq(a.body, 1, n)
                          IN /\ rw' = Flush(IF got = <<>> THEN relayed
                                            ELSE WriteBody(relayed, got))
                             /\ iret' = IoReturn(Nil)
                             /\ ipc' = "done"
                  \/ /\ ipc' = "panic"
                     /\ UNCHANGED <<rw, iret>>
    /\ UNCHANGED <<content, dreq, ictx, rd, cp, tmp, saves, copyVars, davVars, listVars>>

\* DownloadIContent: w.WriteHeader(http.StatusFound)
DlWriteHeader ==
    /\ ipc = "dl.status"
    /\ rw' = WriteHeader(rw, 302)
    /\ ipc' = "dl.location"
    /\ UNCHANGED <<content, dreq, upstream, iret, ictx, rd, cp, tmp, saves,
                   copyVars, davVars, listVars>>

\* DownloadIContent: w.Header().Set("Location", u.URL), and the return.
DlSetLocation ==
    /\ ipc = "dl.location"
    /\ rw' = Flush(SetHeader(rw, "Location", ContentGetURL(content).u.url))
    /\ iret' = IoReturn(Nil)
    /\ ipc' = "done"
    /\ UNCHANGED <<content, dreq, upstream, ictx, rd, cp, tmp, saves,
                   copyVars, davVars, listVars>>

\* DownloadIContent: content.GetReader()
DlGetReader ==
    /\ ipc = "dl.reader"
    /\ IF content.reader = "error"
       THEN ipc' = "done" /\ iret' = IoReturn(Err("Reader"))
       ELSE /\ ipc' = IF content.reader = "seekable" THEN "dl.serve" ELSE "dl.stream"
            /\ UNCHANGED iret
    /\ UNCHANGED <<content, dreq, rw, upstream, ictx, rd, cp, tmp, saves,
                   copyVars, davVars, listVars>>

\* DownloadIContent: http.ServeContent on a reader that can seek, and the
\* return of nil whatever came of it.  Last-Modified is set for a modTime
\* that is not zero; a content not modified since the time the request
\* names is answered 304; the type is sniffed and the size found by
\* seeking, and a seek that fails is answered 500; a Range of the whole
\* content is answered 206 with Content-Range, 416 when the seek to its
\* start fails, and on empty content 416 or, the Range ignored, 200, as the
\* build has it; n chunks of the body get through.
DlServeContent ==
    /\ ipc = "dl.serve"
    /\ \E modTime \in ModTimes, seek \in {"ok", "size", "range"}, build \in Builds,
          n \in 0..content.size :
         LET w0 == IF modTime # 0
                   THEN SetHeader(rw, "Last-Modified", FormatTime(modTime)) ELSE rw
             notModified ==
                 /\ modTime # 0
                 /\ \E t \in ModTimes :
                       <<"If-Modified-Since", FormatTime(t)>> \in dreq.header /\ modTime <= t
             failed(w, code) ==
                 HttpError(IF build = "bare" THEN [w EXCEPT !.header = HDel(@, "Last-Modified")]
                           ELSE w, code)
             w1 == SetHeader(w0, "Content-Type", "sniffed")
             range == <<"Range", "bytes=0-">> \in dreq.header
             ranged == range /\ content.size > 0
             cr == "bytes 0-" \o FormatInt(content.size - 1) \o "/" \o FormatInt(content.size)
             w2 == IF ranged THEN SetHeader(w1, "Content-Range", cr) ELSE w1
             w3 == SetHeader(SetHeader(w2, "Accept-Ranges", "bytes"),
                             "Content-Length", FormatInt(content.size))
             w4 == WriteHeader(w3, IF ranged THEN 206 ELSE 200)
             got == IF dreq.method = "HEAD" THEN <<>>
                    ELSE SubSeq(Chunks(content.size), 1, n)
         IN rw' = Flush(IF notModified THEN WriteHeader(w0, 304)
                        ELSE IF seek = "size" THEN failed(w0, 500)
                        ELSE IF range /\ content.size = 0 /\ build = "ranged"
                        THEN failed(SetHeader(w1, "Content-Range", "bytes */0"), 416)
                        ELSE IF ranged /\ seek = "range" THEN failed(w1, 416)
                        ELSE IF got = <<>> THEN w4 ELSE WriteBody(w4, got))
    /\ iret' = IoReturn(Nil)
    /\ ipc' = "done"
    /\ UNCHANGED <<content, dreq, upstream, ictx, rd, cp, tmp, saves,
                   copyVars, davVars, listVars>>

\* DownloadIContent: Content-Length is set and the reader copied to the
\* response unless the request is a HEAD; the copy may fail on the way, and
\* then nothing goes out but what the writes before the failure sent.
DlStream ==
    /\ ipc = "dl.stream"
    /\ LET w1 == SetHeader(rw, "Content-Length", FormatInt(ContentSize(content)))
       IN IF dreq.method = "HEAD"
          THEN rw' = Flush(w1) /\ iret' = IoReturn(Nil)
          ELSE \E n \in 0..content.size :
                 LET w2 == IF n = 0 THEN w1
                           ELSE WriteBody(w1, SubSeq(Chunks(content.size), 1, n))
                     e == IF n < content.size THEN Err("Io") ELSE Nil
                 IN /\ rw' = IF e = Nil THEN Flush(w2) ELSE w2
                    /\ iret' = IoReturn(e)
    /\ ipc' = "done"
    /\ UNCHANGED <<content, dreq, upstream, ictx, rd, cp, tmp, saves,
                   copyVars, davVars, listVars>>

\* A types.TaskCtx as the streaming copy uses it; at: history, the chunks
\* that had been written when it was canceled.
Ctx(cancelable) == [cancelable |-> cancelable, canceled |-> FALSE, at |-> 0]

\* task.DummyContext()
DummyContext == Ctx(FALSE)

\* An io.Reader; via: the call that handed it out, failed: that call's error.
Reader(via, data) == [via |-> via, failed |-> Nil, data |-> data, pos |-> 0]

NoReader == Reader("", <<>>)

FailedReader(via, e) == [NoReader EXCEPT !.via = via, !.failed = e]

\* Copy's locals: written, and w, ee of the running io.CopyBuffer; out: what
\* has reached dst; returned, err: Copy's return.
NoCopy ==
    [out |-> <<>>, written |-> 0, w |-> 0, buf |-> 0, ee |-> Nil,
     returned |-> FALSE, err |-> Nil]

\* The temporary file.
NoTmp == [created |-> FALSE, exists |-> FALSE, handed |-> FALSE]

\* driveTo.Save(to, size, override, reader, ctx) as CopyEntry calls it.
SaveEv(size, data) == [size |-> size, data |-> data]

\* CopyEntry(from, driveTo, to, override, ctx, tempDir)
CopyEntryCall ==
    /\ ipc = "idle"
    /\ content' \in Contents \cup {Unreadable}
    /\ dreq' = CopyReq("CopyEntry")
    /\ ictx' = DummyContext
    /\ ipc' = "ce.content"
    /\ UNCHANGED <<rw, upstream, iret, rd, cp, tmp, saves, copyVars, davVars, listVars>>

\* CopyEntry: from.(types.IContent)
CeContent ==
    /\ ipc = "ce.content"
    /\ IF ~content.readable
       THEN /\ ipc' = "done"
            /\ iret' = IoReturn(NewNotAllowedMessageError("drive.file_not_readable",
                                                          <<>>, <<>>))
       ELSE ipc' = "gr.url" /\ UNCHANGED iret
    /\ UNCHANGED <<content, dreq, rw, upstream, ictx, rd, cp, tmp, saves,
                   copyVars, davVars, listVars>>

\* GetIContentReader: on which GetURL errors content.GetReader() is called.
FallsBack(e) == e # Nil

\* What CopyIContentToTempFile does with GetIContentReader's answer.
GotReader(reader) ==
    IF reader.failed # Nil
    THEN /\ ipc' = "done"
         /\ iret' = IoReturn(reader.failed)
    ELSE /\ ipc' = "tf.create"
         /\ UNCHANGED iret

\* GetIContentReader: content.GetURL()
GrGetURL ==
    /\ ipc = "gr.url"
    /\ LET g == ContentGetURL(content)
       IN IF g.e = Nil THEN ipc' = "gr.fetch" /\ UNCHANGED <<iret, rd>>
          ELSE IF FallsBack(g.e) THEN ipc' = "gr.reader" /\ UNCHANGED <<iret, rd>>
          ELSE /\ rd' = FailedReader("GetURL", g.e)
               /\ GotReader(rd')
    /\ UNCHANGED <<content, dreq, rw, upstream, ictx, cp, tmp, saves,
                   copyVars, davVars, listVars>>

\* GetURL(u, header): the URL is fetched; anything but a 200 is an error.
GrFetch ==
    /\ ipc = "gr.fetch"
    /\ LET u == ContentGetURL(content).u
           e == UrlParse(u.url)
       IN IF e # Nil
          THEN rd' = FailedReader("GetURL", e) /\ UNCHANGED upstream
          ELSE /\ upstream' = [sent |-> TRUE, url |-> u.url, header |-> u.header.m]
               /\ \E status \in {0, 200, 404} :
                    rd' = IF status = 0 THEN FailedReader("GetURL", Err("Transport"))
                          ELSE IF status # 200
                          THEN FailedReader("GetURL", Err("RemoteApi"))
                          ELSE Reader("GetURL", Chunks(content.size))
    /\ GotReader(rd')
    /\ UNCHANGED <<content, dreq, rw, ictx, cp, tmp, saves, copyVars, davVars, listVars>>

\* GetIContentReader: content.GetReader()
GrGetReader ==
    /\ ipc = "gr.reader"
    /\ rd' = IF content.reader = "error" THEN FailedReader("GetReader", Err("Reader"))
             ELSE Reader("GetReader", Chunks(content.size))
    /\ GotReader(rd')
    /\ UNCHANGED <<content, dreq, rw, upstream, ictx, cp, tmp, saves,
                   copyVars, davVars, listVars>>

\* CopyReaderToTempFile(reader, ctx, tempDir) called on its own, with a
\* context that can be canceled.
TempFileCall ==
    /\ ipc = "idle"
    /\ dreq' = CopyReq("CopyReaderToTempFile")
    /\ \E n \in 0..MaxChunks : rd' = Reader("caller", Chunks(n))
    /\ ictx' = Ctx(TRUE)
    /\ ipc' = "tf.create"
    /\ UNCHANGED <<content, rw, upstream, iret, cp, tmp, saves, copyVars, davVars, listVars>>

\* CopyReaderToTempFile: ioutil.TempFile
TfCreate ==
    /\ ipc = "tf.create"
    /\ \/ /\ tmp' = [tmp EXCEPT !.created = TRUE, !.exists = TRUE]
          /\ ipc' = "cp.poll"
          /\ UNCHANGED iret
       \/ /\ ipc' = "done"
          /\ iret' = IoReturn(Err("TempFile"))
          /\ UNCHANGED tmp
    /\ UNCHANGED <<content, dreq, rw, upstream, ictx, rd, cp, saves,
                   copyVars, davVars, listVars>>

\* Copy returns (written, e).
CopyReturn(c, e) == [c EXCEPT !.returned = TRUE, !.err = e]

\* Copy: the poll of ctx.Canceled() at the head of the loop.
CopyPoll ==
    /\ ipc = "cp.poll"
    /\ IF ictx.canceled
       THEN cp' = CopyReturn(cp, ErrorCanceled) /\ ipc' = "tf.copied"
       ELSE cp' = [cp EXCEPT !.w = 0, !.ee = Nil] /\ ipc' = "cp.read"
    /\ UNCHANGED <<content, dreq, rw, upstream, iret, ictx, rd, tmp, saves,
                   copyVars, davVars, listVars>>

\* io.CopyBuffer: a Read into buf; it goes on until the end of the stream
\* or an error.
CopyBufferRead ==
    /\ ipc = "cp.read"
    /\ IF rd.pos = Len(rd.data)
       THEN ipc' = "cp.end" /\ UNCHANGED <<rd, cp>>
       ELSE \/ /\ rd' = [rd EXCEPT !.pos = @ + 1]
               /\ cp' = [cp EXCEPT !.buf = rd.data[rd.pos + 1]]
               /\ ipc' = "cp.write"
            \/ /\ cp' = [cp EXCEPT !.ee = Err("Read")]
               /\ ipc' = "cp.end"
               /\ UNCHANGED rd
    /\ UNCHANGED <<content, dreq, rw, upstream, iret, ictx, tmp, saves,
                   copyVars, davVars, listVars>>

\* io.CopyBuffer: the Write of what was read.
CopyBufferWrite ==
    /\ ipc = "cp.write"
    /\ \/ /\ cp' = [cp EXCEPT !.out = Append(@, cp.buf), !.w = @ + 1]
          /\ ipc' = "cp.read"
       \/ /\ cp' = [cp EXCEPT !.ee = Err("Write")]
          /\ ipc' = "cp.end"
    /\ UNCHANGED <<content, dreq, rw, upstream, iret, ictx, rd, tmp, saves,
                   copyVars, davVars, listVars>>

\* Copy: io.CopyBuffer has returned (w, ee).
CopyBufferEnd ==
    /\ ipc = "cp.end"
    /\ IF cp.ee # Nil \/ cp.w = 0
       THEN cp' = CopyReturn(cp, Nil) /\ ipc' = "tf.copied"
       ELSE cp' = [cp EXCEPT !.written = @ + cp.w] /\ ipc' = "cp.poll"
    /\ UNCHANGED <<content, dreq, rw, upstream, iret, ictx, rd, tmp, saves,
                   copyVars, davVars, listVars>>

\* CopyReaderToTempFile returns (file, e) to CopyEntry or to its caller.
TempFileReturn(e) ==
    IF dreq.op = "CopyEntry" /\ e = Nil
    THEN ipc' = "ce.save" /\ UNCHANGED iret
    ELSE ipc' = "done" /\ iret' = IoReturn(e)

\* CopyReaderToTempFile: Copy's error, then the Seek to the start; on an
\* error the file is closed and removed.
TfCopied ==
    /\ ipc = "tf.copied"
    /\ IF cp.err # Nil
       THEN /\ tmp' = [tmp EXCEPT !.exists = FALSE]
            /\ TempFileReturn(cp.err)
       ELSE \/ /\ tmp' = [tmp EXCEPT !.handed = TRUE]
               /\ TempFileReturn(Nil)
            \/ /\ tmp' = [tmp EXCEPT !.exists = FALSE]
               /\ TempFileReturn(Err("Seek"))
    /\ UNCHANGED <<content, dreq, rw, upstream, ictx, rd, cp, saves,
                   copyVars, davVars, listVars>>

\* CopyEntry: driveTo.Save of the temporary file, which is removed
\* whatever Save answers.
CeSave ==
    /\ ipc = "ce.save"
    /\ saves' = Append(saves, SaveEv(ContentSize(content), cp.out))
    /\ tmp' = [tmp EXCEPT !.exists = FALSE]
    /\ \E e \in {Nil, Err("Save")} : iret' = IoReturn(e)
    /\ ipc' = "done"
    /\ UNCHANGED <<content, dreq, rw, upstream, ictx, rd, cp, copyVars, davVars, listVars>>

\* The task is canceled while the copy runs.
CtxCancel ==
    /\ ipc \in {"tf.create", "cp.poll", "cp.read", "cp.write", "cp.end"}
    /\ ictx.cancelable /\ ~ictx.canceled
    /\ ictx' = [ictx EXCEPT !.canceled = TRUE, !.at = Len(cp.out)]
    /\ UNCHANGED <<content, dreq, rw, upstream, ipc, iret, rd, cp, tmp, saves,
                   copyVars, davVars, listVars>>

\* No routine is running yet.
InitIO ==
    /\ CopyOff
    /\ DavOff
    /\ ListOff
    /\ content = NoContent
    /\ dreq = NoReq
    /\ rw = NoWriter
    /\ upstream = NoUpstream
    /\ ipc = "idle"
    /\ iret = NoResult
    /\ ictx = DummyContext
    /\ rd = NoReader
    /\ cp = NoCopy
    /\ tmp = NoTmp
    /\ saves = <<>>

NextIO ==
    \/ DownloadCall
    \/ DlGetURL
    \/ DlProxy
    \/ DlWriteHeader
    \/ DlSetLocation
    \/ DlGetReader
    \/ DlServeContent
    \/ DlStream
    \/ CopyEntryCall
    \/ CeContent
    \/ GrGetURL
    \/ GrFetch
    \/ GrGetReader
    \/ TempFileCall
    \/ TfCreate
    \/ CopyPoll
    \/ CopyBufferRead
    \/ CopyBufferWrite
    \/ CopyBufferEnd
    \/ TfCopied
    \/ CeSave
    \/ CtxCancel

SpecIO == InitIO /\ [][NextIO]_vars

(***************************************************************************)
(* Properties of content delivery and of the streaming copy                *)
(***************************************************************************)
\* A download is running or through / is through.
Downloading == dreq.op = "DownloadIContent"

Downloaded == Downloading /\ ipc = "done"

\* The download was answered with a redirect.
Redirected ==
    /\ Downloaded
    /\ ContentGetURL(content).e = Nil
    /\ LET u == ContentGetURL(content).u
       IN ~(u.proxy \/ dreq.forceProxy \/ ~u.header.isNil)

BasicAuthorization == <<"Authorization", "Basic dTpw">>

(* C12: a download of a WebDAV file entry.  With a username configured the  *)
(* content URL carries the Basic Authorization header and is marked         *)
(* proxy-required, the request is forwarded by the reverse proxy with that  *)
(* header, and the requester gets neither a redirect nor the header;        *)
(* without a username the content URL is plain (not proxy-required, no      *)
(* headers), and unless forceProxy is set the requester gets a redirect     *)
(* and nothing is forwarded.                                                *)
C12_WebDavDelivery ==
    (Downloading /\ content.kind = "webdav" /\ ContentGetURL(content).e = Nil) =>
        LET u == ContentGetURL(content).u
        IN /\ content.username # "" =>
                /\ u.proxy
                /\ u.header = SM({BasicAuthorization})
                /\ ipc = "done" =>
                      /\ upstream.sent
                      /\ BasicAuthorization \in upstream.header
                      /\ rw.status # 302
                      /\ "Location" \notin HNames(rw.sent)
                      /\ "Authorization" \notin HNames(rw.sent)
           /\ content.username = "" =>
                /\ ~u.proxy
                /\ u.header = NilSM
                /\ (ipc = "done" /\ ~dreq.forceProxy) =>
                      /\ ~upstream.sent
                      /\ rw.status = 302

(* C13: when a download is answered with a redirect, the response that has  *)
(* gone out has status 302 and its headers, as they were sent, hold         *)
(* Location with the resolved URL.                                          *)
C13_RedirectLocation ==
    Redirected =>
        /\ rw.committed
        /\ rw.status = 302
        /\ <<"Location", ContentGetURL(content).u.url>> \in rw.sent

(***************************************************************************)
(* WebDAVDrive.List (drive/webdav.go)                                      *)
(*                                                                         *)
(* Paths and hrefs are strings here, written as sequences of characters:   *)
(* "/x/y" is <<"/", "x", "/", "y">>.  The server holds a small tree; a     *)
(* PROPFIND with Depth 1 is answered with the element of a collection and  *)
(* the elements of its members.                                            *)
(***************************************************************************)
\* List calls made on one drive, and calls of its mutating methods.
MaxLists == 2

MaxMutations == 1

\* strings.Split(s, "/")
RECURSIVE SplitPath(_)
SplitPath(s) ==
    IF \A i \in 1..Len(s) : s[i] # "/" THEN <<s>>
    ELSE LET i == CHOOSE k \in 1..Len(s) :
                    s[k] = "/" /\ \A j \in 1..(k - 1) : s[j] # "/"
         IN <<SubSeq(s, 1, i - 1)>> \o SplitPath(SubSeq(s, i + 1, Len(s)))

\* strings.Join(segs, "/")
RECURSIVE JoinPath(_)
JoinPath(segs) ==
    IF segs = <<>> THEN <<>>
    ELSE IF Len(segs) = 1 THEN segs[1]
    ELSE segs[1] \o <<"/">> \o JoinPath(Tail(segs))

\* utils.CleanPath: no empty segments, no slash at either end.
CleanPath(s) == JoinPath(SelectSeq(SplitPath(s), LAMBDA g : g # <<>>))

\* utils.PathDepth: the number of segments of the cleaned path.
PathDepth(s) ==
    IF CleanPath(s) = <<>> THEN 0 ELSE Len(SplitPath(CleanPath(s)))

\* url.PathUnescape, for the one escape the names here need: %20.
RECURSIVE PathUnescape(_)
PathUnescape(s) ==
    IF s = <<>> THEN <<>>
    ELSE IF Len(s) >= 3 /\ SubSeq(s, 1, 3) = <<"%", "2", "0">>
    THEN <<" ">> \o PathUnescape(SubSeq(s, 4, Len(s)))
    ELSE <<Head(s)>> \o PathUnescape(Tail(s))

\* The escaping a server applies to a name in an href.
RECURSIVE PathEscape(_)
PathEscape(s) ==
    IF s = <<>> THEN <<>>
    ELSE (IF Head(s) = " " THEN <<"%", "2", "0">> ELSE <<Head(s)>>)
         \o PathEscape(Tail(s))

\* The server's tree when the drive is opened: the collections and the
\* files, each the sequence of its names.
ServerDirs == {<<>>, <<"x">>, <<"x", "z">>}

ServerFiles == {<<"y">>, <<"x", "y">>, <<"x", "z", "y">>, <<"x", "z", " ">>}

ListTree(dirs, files) == [dirs |-> dirs, files |-> files]

\* propfindResponse: the href of a resource and its collection mark.
Element(names, isDir) ==
    [href |-> <<"/">> \o JoinPath([i \in 1..Len(names) |-> PathEscape(<<names[i]>>)])
              \o (IF isDir /\ names # <<>> THEN <<"/">> ELSE <<>>),
     collection |-> isDir]

\* The members of a collection, in the order the server lists them.
Members(t, dir) ==
    LET in(S) == {n \in S : Len(n) = Len(dir) + 1 /\ SubSeq(n, 1, Len(dir)) = dir}
        RECURSIVE Listed(_, _)
        Listed(S, isDir) ==
            IF S = {} THEN <<>>
            ELSE LET n == CHOOSE m \in S : TRUE
                 IN <<Element(n, isDir)>> \o Listed(S \ {n}, isDir)
    IN Listed(in(t.files), FALSE) \o Listed(in(t.dirs), TRUE)

\* multiStatus of a PROPFIND with Depth 1 on a collection.
Depth1Response(t, dir) == <<Element(dir, TRUE)>> \o Members(t, dir)

\* The pathPrefix of the drive's URL, and the paths the drive's methods are
\* called with.
Prefixes == {<<>>, <<"/", "x">>, <<"/", "x", "/">>}

ListPaths ==
    {<<"/">>, <<"/", "x">>, <<"x", "/">>, <<"/", "z">>, <<"/", "x", "/", "z">>,
     <<"/", "q">>}

\* The names of a path or prefix.
Names(s) ==
    LET segs == SelectSeq(SplitPath(s), LAMBDA g : g # <<>>)
    IN [i \in 1..Len(segs) |-> segs[i][1]]

\* The resource a request on path is made on.
Target(prefix, path) == Names(prefix) \o Names(path)

\* utils.PathParent: the cleaned path without its last segment.
ListPathParent(s) ==
    LET segs == SelectSeq(SplitPath(s), LAMBDA g : g # <<>>)
    IN IF segs = <<>> THEN <<>> ELSE JoinPath(SubSeq(segs, 1, Len(segs) - 1))

\* A types.IEntry of the drive, as newEntry builds it.
ListEntry(path, isDir) == [path |-> path, isDir |-> isDir]

\* newEntry, as far as List's result shows it: the href is unescaped, the
\* pathPrefix cut off its front, and the rest cleaned.
ListNewEntry(prefix, res) ==
    LET href == PathUnescape(res.href)
    IN ListEntry(CleanPath(SubSeq(href, Len(prefix) + 1, Len(href))), res.collection)

\* A filter that takes the requested directory's own element too.
DeeperOrSame(prefix, path, res) ==
    PathDepth(res.href) - PathDepth(prefix) >= PathDepth(path)

\* List: the element lies deeper than the requested path.
Deeper(prefix, path, res) ==
    PathDepth(res.href) - PathDepth(prefix) > PathDepth(path)

\* tree: the server's tree when the request was answered.
NoListCall ==
    [pc |-> "idle", path |-> <<>>, res |-> <<>>, i |-> 0, entries |-> <<>>,
     e |-> Nil, cached |-> FALSE, tree |-> ListTree({}, {})]

\* A miss of the children cache.
Miss == [hit |-> FALSE, entries |-> <<>>]

\* The keys of the cache's records: the virtual paths, cleaned.
ListKeys == {CleanPath(p) : p \in ListPaths} \cup {<<>>}

\* w.cache.GetChildren(path); DummyCache always misses.
CacheGetChildren(cache, on, p) == IF on THEN cache[CleanPath(p)] ELSE Miss

\* w.cache.PutChildren(path, entries, ttl); DummyCache keeps nothing.
CachePutChildren(cache, on, p, entries) ==
    IF on THEN [cache EXCEPT ![CleanPath(p)] = [hit |-> TRUE, entries |-> entries]]
    ELSE cache

\* w.cache.Evict(path, descendants), on the children records: the record of
\* the path goes, and with descendants every record of a path it is a
\* prefix of.
EvictChildren(cache, p, descendants) ==
    LET key == CleanPath(p)
    IN [k \in ListKeys |->
          IF k = key
             \/ (descendants /\ Len(key) <= Len(k) /\ SubSeq(k, 1, Len(key)) = key)
          THEN Miss ELSE cache[k]]

\* List(path)
ListCall ==
    /\ listCall.pc \in {"idle", "done"}
    /\ listCount < MaxLists
    /\ \E p \in ListPaths : listCall' = [NoListCall EXCEPT !.pc = "lookup", !.path = p]
    /\ listCount' = listCount + 1
    /\ UNCHANGED <<listPrefix, listCache, listCacheOn, listEntries, listFs, listMut, listMuts,
                   copyVars, davVars, ioVars>>

\* List: w.cache.GetChildren(path)
ListLookup ==
    /\ listCall.pc = "lookup"
    /\ LET cached == CacheGetChildren(listCache, listCacheOn, listCall.path)
       IN listCall' = IF cached.hit
                      THEN [listCall EXCEPT !.pc = "done", !.entries = cached.entries,
                                            !.cached = TRUE]
                      ELSE [listCall EXCEPT !.pc = "req"]
    /\ UNCHANGED <<listPrefix, listCache, listCacheOn, listEntries, listFs, listMut, listMuts,
                   listCount, copyVars, davVars, ioVars>>

\* List: PROPFIND with Depth 1 and the parse of the answer (resp.XML); the
\* answer is the one of some collection (of the requested one, if the server
\* is the drive's), a multi-status without a response, a body that does not
\* parse, or a failure.
ListRequest ==
    /\ listCall.pc = "req"
    /\ \/ \E dir \in listFs.dirs :
            listCall' = [listCall EXCEPT !.pc = "filter",
                                         !.res = Depth1Response(listFs, dir),
                                         !.i = 1, !.tree = listFs]
       \/ listCall' = [listCall EXCEPT !.pc = "filter", !.res = <<>>, !.i = 1,
                                       !.tree = listFs]
       \/ listCall' = [listCall EXCEPT !.pc = "done", !.e = Err("XML"),
                                       !.tree = listFs]
       \/ \E status \in {404, 500} :
            listCall' = [listCall EXCEPT !.pc = "done", !.e = AfterRequest(status),
                                         !.tree = listFs]
    /\ UNCHANGED <<listPrefix, listCache, listCacheOn, listEntries, listFs, listMut, listMuts,
                   listCount, copyVars, davVars, ioVars>>

\* List: the loop over the elements of the response, from the first to the
\* last.
RECURSIVE Filter(_, _, _)
Filter(prefix, path, res) ==
    IF res = <<>> THEN <<>>
    ELSE (IF Deeper(prefix, path, Head(res))
          THEN <<ListNewEntry(prefix, Head(res))>> ELSE <<>>)
         \o Filter(prefix, path, Tail(res))

\* List: the loop, which touches nothing but the call's own entries.
ListFilter ==
    /\ listCall.pc = "filter"
    /\ listCall' = [listCall EXCEPT
                      !.pc = "put", !.i = Len(listCall.res) + 1,
                      !.entries = Filter(listPrefix, listCall.path, listCall.res)]
    /\ UNCHANGED <<listPrefix, listCache, listCacheOn, listEntries, listFs, listMut, listMuts,
                   listCount, copyVars, davVars, ioVars>>

\* List: w.cache.PutChildren(path, entries, w.cacheTTL), and the return.
ListPut ==
    /\ listCall.pc = "put"
    /\ listCache' = CachePutChildren(listCache, listCacheOn, listCall.path,
                                     listCall.entries)
    /\ listCall' = [listCall EXCEPT !.pc = "done"]
    /\ UNCHANGED <<listPrefix, listCacheOn, listEntries, listFs, listMut, listMuts, listCount,
                   copyVars, davVars, ioVars>>

\* The server's side of the mutating requests, on the tree.
TreeHas(t, n) == n \in t.dirs \cup t.files

TreeRemove(t, n) ==
    ListTree({d \in t.dirs : ~IsPrefix(n, d)}, {f \in t.files : ~IsPrefix(n, f)})

TreeCopy(t, from, to, move) ==
    LET copied == [TreeRemove(t, to) EXCEPT !.files = @ \cup {to}]
    IN IF move THEN TreeRemove(copied, from) ELSE copied

TreeDeleteStatus(t, n) ==
    IF n = <<>> THEN 403 ELSE IF TreeHas(t, n) THEN 204 ELSE 404

TreeMkcolStatus(t, n) ==
    IF TreeHas(t, n) THEN 405
    ELSE IF PathParent(n) \notin t.dirs THEN 409 ELSE 201

TreePutStatus(t, n) ==
    IF n \in t.dirs THEN 405
    ELSE IF PathParent(n) \notin t.dirs THEN 409
    ELSE IF n \in t.files THEN 204 ELSE 201

TreeCopyStatus(t, from, to, overwrite) ==
    IF ~TreeHas(t, from) THEN 404
    ELSE IF from = to \/ to = <<>> THEN 403
    ELSE IF PathParent(to) \notin t.dirs THEN 409
    ELSE IF TreeHas(t, to) THEN (IF overwrite = "F" THEN 412 ELSE 204)
    ELSE 201

TreePropfindStatus(t, n) == IF TreeHas(t, n) THEN 207 ELSE 404

\* The paths the mutating methods are called with.
MutPaths == {<<"/", "x", "/", "z">>, <<"/", "q">>}

\* An entry, or none: a hit or a miss of the entry cache, and what Get
\* returns.
Got(entry) == [hit |-> TRUE, entry |-> entry]

NoneGot == [hit |-> FALSE, entry |-> ListEntry(<<>>, FALSE)]

\* w.cache.GetEntry(path); DummyCache always misses.
ListGetEntry(cache, on, p) == IF on THEN cache[CleanPath(p)] ELSE NoneGot

\* w.cache.PutEntry(entry, ttl); DummyCache keeps nothing.
ListPutEntry(cache, on, entry) ==
    IF on THEN [cache EXCEPT ![entry.path] = Got(entry)] ELSE cache

\* w.cache.Evict(path, descendants), on the entry records.
EvictEntries(cache, p, descendants) ==
    LET key == CleanPath(p)
    IN [k \in ListKeys |->
          IF k = key
             \/ (descendants /\ Len(key) <= Len(k) /\ SubSeq(k, 1, Len(key)) = key)
          THEN NoneGot ELSE cache[k]]

\* The call of a mutating method, run by a caller of its own next to the one
\* that lists.  status: the answer to its mutating request (0: none yet);
\* e, entry: what it returned.
NoMutation ==
    [op |-> "", pc |-> "idle", path |-> <<>>, from |-> <<>>, override |-> FALSE,
     cont |-> "", evicts |-> <<>>, thenGet |-> FALSE, gotE |-> Nil, gotEntry |-> NoneGot,
     status |-> 0, e |-> Nil, entry |-> NoneGot]

Mutated(op, p, from, ovr) ==
    [NoMutation EXCEPT !.op = op, !.path = p, !.from = from, !.override = ovr]

\* `return entry, e` of the method.
MutReturn(rec, got, e) == [rec EXCEPT !.pc = "done", !.entry = got, !.e = e]

\* w.Get(path) inside the method, which goes on at cont ("return": it
\* returns what Get returns).
MutGet(rec, cont) == [rec EXCEPT !.pc = "get.lookup", !.cont = cont]

MutEndGet(rec, got, e) ==
    IF rec.cont = "return" THEN MutReturn(rec, got, e)
    ELSE [rec EXCEPT !.pc = rec.cont, !.gotEntry = got, !.gotE = e]

\* After a request that went through: the evictions, then the re-read or
\* the return.
MutEvicts(rec, status, evs, thenGet) ==
    [rec EXCEPT !.pc = "evict", !.status = status, !.evicts = evs, !.thenGet = thenGet]

\* A mutating method can be called.
CanMutate ==
    /\ listMut.pc \in {"idle", "done"}
    /\ listMuts < MaxMutations

\* Get inside a mutating method: the cache lookup.
ListMutGetLookup ==
    /\ listMut.pc = "get.lookup"
    /\ LET cached == ListGetEntry(listEntries, listCacheOn, listMut.path)
       IN listMut' = IF cached.hit THEN MutEndGet(listMut, cached, Nil)
                     ELSE [listMut EXCEPT !.pc = "get.req"]
    /\ UNCHANGED <<listPrefix, listCache, listCacheOn, listEntries, listFs, listCall,
                   listCount, listMuts, copyVars, davVars, ioVars>>

\* Get inside a mutating method: PROPFIND with Depth 0, resp.XML and
\* res.Response[0].
ListMutGetRequest ==
    /\ listMut.pc = "get.req"
    /\ LET n == Target(listPrefix, listMut.path)
       IN \E status \in {TreePropfindStatus(listFs, n), 500}, body \in Bodies :
            /\ ~Success(status) => body = ""
            /\ LET e == AfterRequest(status)
               IN listMut' =
                    IF e # Nil THEN MutEndGet(listMut, NoneGot, e)
                    ELSE IF body = "malformed"
                    THEN MutEndGet(listMut, NoneGot, Err("XML"))
                    ELSE IF body = "empty" THEN [listMut EXCEPT !.pc = "panic"]
                    ELSE [listMut EXCEPT
                            !.pc = "get.put",
                            !.gotEntry =
                               Got(ListNewEntry(listPrefix,
                                                Element(n, n \in listFs.dirs)))]
    /\ UNCHANGED <<listPrefix, listCache, listCacheOn, listEntries, listFs, listCall,
                   listCount, listMuts, copyVars, davVars, ioVars>>

\* Get inside a mutating method: PutEntry and the return.
ListMutGetPut ==
    /\ listMut.pc = "get.put"
    /\ listEntries' = ListPutEntry(listEntries, listCacheOn, listMut.gotEntry.entry)
    /\ listMut' = MutEndGet(listMut, listMut.gotEntry, Nil)
    /\ UNCHANGED <<listPrefix, listCache, listCacheOn, listFs, listCall,
                   listCount, listMuts, copyVars, davVars, ioVars>>

\* w.cache.Evict(path, descendants): the next eviction of the method; after
\* the last one it reads the path again or returns.
ListEvictStep ==
    /\ listMut.pc = "evict"
    /\ LET ev == Head(listMut.evicts)
           rec == [listMut EXCEPT !.evicts = Tail(@)]
       IN /\ listCache' = EvictChildren(listCache, ev[1], ev[2])
          /\ listEntries' = EvictEntries(listEntries, ev[1], ev[2])
          /\ listMut' = IF rec.evicts # <<>> THEN rec
                        ELSE IF rec.thenGet THEN MutGet(rec, "return")
                        ELSE MutReturn(rec, NoneGot, Nil)
    /\ UNCHANGED <<listPrefix, listCacheOn, listFs, listCall, listCount, listMuts,
                   copyVars, davVars, ioVars>>

\* Delete(path): DELETE; then the records of the path, of what lies beneath
\* it, and of its parent are to be evicted.
ListDelete ==
    /\ CanMutate
    /\ \E p \in MutPaths :
         LET n == Target(listPrefix, p)
             rec == Mutated("Delete", p, <<>>, FALSE)
         IN \E status \in {TreeDeleteStatus(listFs, n), 500} :
              LET e == AfterRequest(status)
              IN /\ listFs' = IF Success(status) THEN TreeRemove(listFs, n) ELSE listFs
                 /\ listMut' =
                      IF e # Nil THEN MutReturn([rec EXCEPT !.status = status], NoneGot, e)
                      ELSE MutEvicts(rec, status,
                                     <<<<p, TRUE>>, <<ListPathParent(p), FALSE>>>>, FALSE)
    /\ listMuts' = listMuts + 1
    /\ UNCHANGED <<listPrefix, listCache, listCacheOn, listEntries, listCall, listCount,
                   copyVars, davVars, ioVars>>

\* MakeDir(path): MKCOL; then the parent's record is to be evicted and the
\* path read.
ListMakeDir ==
    /\ CanMutate
    /\ \E p \in MutPaths :
         LET n == Target(listPrefix, p)
             rec == Mutated("MakeDir", p, <<>>, FALSE)
         IN \E status \in {TreeMkcolStatus(listFs, n), 500} :
              LET e == AfterRequest(status)
              IN /\ listFs' = IF Success(status)
                              THEN [listFs EXCEPT !.dirs = @ \cup {n}] ELSE listFs
                 /\ listMut' =
                      IF e # Nil THEN MutReturn([rec EXCEPT !.status = status], NoneGot, e)
                      ELSE MutEvicts(rec, status, <<<<ListPathParent(p), FALSE>>>>, TRUE)
    /\ listMuts' = listMuts + 1
    /\ UNCHANGED <<listPrefix, listCache, listCacheOn, listEntries, listCall, listCount,
                   copyVars, davVars, ioVars>>

\* Save(path, size, override, reader, ctx): the existence check comes first
\* unless overwriting is allowed.
ListSave ==
    /\ CanMutate
    /\ \E p \in MutPaths, ovr \in BOOLEAN :
         LET rec == Mutated("Save", p, <<>>, ovr)
         IN listMut' = IF ~ovr THEN MutGet(rec, "save.checked")
                       ELSE [rec EXCEPT !.pc = "save.put"]
    /\ listMuts' = listMuts + 1
    /\ UNCHANGED <<listPrefix, listCache, listCacheOn, listEntries, listFs, listCall,
                   listCount, copyVars, davVars, ioVars>>

\* Save: what the existence check decides.
ListSaveChecked ==
    /\ listMut.pc = "save.checked"
    /\ LET e == listMut.gotE
       IN listMut' =
            IF e # Nil /\ ~IsNotFoundError(e) THEN MutReturn(listMut, NoneGot, e)
            ELSE IF IsConflict(e)
            THEN MutReturn(listMut, NoneGot,
                           NewNotAllowedMessageError("drive.file_exists", <<>>, <<>>))
            ELSE [listMut EXCEPT !.pc = "save.put"]
    /\ UNCHANGED <<listPrefix, listCache, listCacheOn, listEntries, listFs, listCall,
                   listCount, listMuts, copyVars, davVars, ioVars>>

\* Save: the PUT; then the records of the parent and of the path are to be
\* evicted and the path read.
ListSavePut ==
    /\ listMut.pc = "save.put"
    /\ LET p == listMut.path
           n == Target(listPrefix, p)
       IN \E status \in {TreePutStatus(listFs, n), 500} :
            LET e == AfterRequest(status)
            IN /\ listFs' = IF Success(status)
                            THEN [listFs EXCEPT !.files = @ \cup {n}] ELSE listFs
               /\ listMut' =
                    IF e # Nil
                    THEN MutReturn([listMut EXCEPT !.status = status], NoneGot, e)
                    ELSE MutEvicts(listMut, status,
                                   <<<<ListPathParent(p), FALSE>>, <<p, FALSE>>>>, TRUE)
    /\ UNCHANGED <<listPrefix, listCache, listCacheOn, listEntries, listCall, listCount,
                   listMuts, copyVars, davVars, ioVars>>

\* The entries handed to Copy and Move; own: an entry of this drive.
ListSources == {ListEntry(<<"y">>, FALSE), ListEntry(<<"x">>, TRUE)}

\* w.c.BuildURL(to), on a path: the error of it.
ListBuildURL(to) == IF to = <<"%">> THEN Err("BuildURL") ELSE Nil

\* The records copyOrMove evicts after the request.
ListCopyOrMoveEvicts(method, from, to) ==
    <<<<to, TRUE>>, <<ListPathParent(to), FALSE>>>>
        \o (IF method = "MOVE"
            THEN <<<<from, TRUE>>, <<ListPathParent(from), FALSE>>>>
            ELSE <<>>)

\* Copy(from, to, override, ctx) and Move: sources that are not files of
\* this drive are refused, and so is a destination without a URL.
ListCopyOrMove ==
    /\ CanMutate
    /\ \E method \in {"COPY", "MOVE"}, from \in ListSources, own \in BOOLEAN,
          to \in MutPaths \cup {<<"%">>}, ovr \in BOOLEAN :
         LET rec == Mutated(method, to, from.path, ovr)
         IN listMut' = IF ~own \/ from.isDir
                       THEN MutReturn(rec, NoneGot, Err("Unsupported"))
                       ELSE IF ListBuildURL(to) # Nil
                       THEN MutReturn(rec, NoneGot, ListBuildURL(to))
                       ELSE [rec EXCEPT !.pc = "cm.req"]
    /\ listMuts' = listMuts + 1
    /\ UNCHANGED <<listPrefix, listCache, listCacheOn, listEntries, listFs, listCall,
                   listCount, copyVars, davVars, ioVars>>

\* copyOrMove: the COPY or MOVE request; then the destination and its parent
\* (and for MOVE the source and its parent) are to be evicted and the
\* destination read.
ListCopyOrMoveRequest ==
    /\ listMut.pc = "cm.req"
    /\ LET method == listMut.op
           to == listMut.path
           ovr == listMut.override
           src0 == Target(listPrefix, listMut.from)
           dest == Target(listPrefix, to)
       IN \E status \in {TreeCopyStatus(listFs, src0, dest, OverwriteHeader(ovr)), 500} :
            LET e == AfterRequest(status)
            IN /\ listFs' = IF Success(status)
                            THEN TreeCopy(listFs, src0, dest, method = "MOVE")
                            ELSE listFs
               /\ listMut' =
                    IF e # Nil /\ ~Benign(ovr, e)
                    THEN MutReturn([listMut EXCEPT !.status = status], NoneGot, e)
                    ELSE MutEvicts(listMut, status,
                                   ListCopyOrMoveEvicts(method, listMut.from, to), TRUE)
    /\ UNCHANGED <<listPrefix, listCache, listCacheOn, listEntries, listCall, listCount,
                   listMuts, copyVars, davVars, ioVars>>

\* A record's time to live runs out: a children record or an entry record.
ListExpire ==
    /\ \E p \in ListKeys :
         \/ /\ listCache[p].hit
            /\ listCache' = [listCache EXCEPT ![p] = Miss]
            /\ UNCHANGED listEntries
         \/ /\ listEntries[p].hit
            /\ listEntries' = [listEntries EXCEPT ![p] = NoneGot]
            /\ UNCHANGED listCache
    /\ UNCHANGED <<listPrefix, listCacheOn, listFs, listCall, listCount, listMut,
                   listMuts, copyVars, davVars, ioVars>>

\* A drive opened on a URL with some path prefix, with cache_ttl set or
\* not, nothing listed yet; NewWebDAVDrive's closing Get("/") has left the
\* root's entry in the cache.
InitList ==
    /\ CopyOff
    /\ DavOff
    /\ IoOff
    /\ listPrefix \in Prefixes
    /\ listCacheOn \in BOOLEAN
    /\ listCache = [p \in ListKeys |-> Miss]
    /\ listEntries = ListPutEntry([p \in ListKeys |-> NoneGot], listCacheOn,
                                  ListEntry(<<>>, TRUE))
    /\ listFs = ListTree(ServerDirs, ServerFiles)
    /\ listCall = NoListCall
    /\ listCount = 0
    /\ listMut = NoMutation
    /\ listMuts = 0

NextList ==
    \/ ListCall
    \/ ListLookup
    \/ ListRequest
    \/ ListFilter
    \/ ListPut
    \/ ListDelete
    \/ ListMakeDir
    \/ ListSave
    \/ ListSaveChecked
    \/ ListSavePut
    \/ ListCopyOrMove
    \/ ListCopyOrMoveRequest
    \/ ListEvictStep
    \/ ListMutGetLookup
    \/ ListMutGetRequest
    \/ ListMutGetPut
    \/ ListExpire

SpecList == InitList /\ [][NextList]_vars

(***************************************************************************)
(* Properties of List                                                      *)
(***************************************************************************)
\* The call got the answer of the collection it asked for.
HonestAnswer ==
    /\ Target(listPrefix, listCall.path) \in listCall.tree.dirs
    /\ listCall.res = Depth1Response(listCall.tree, Target(listPrefix, listCall.path))

\* List has gone through the whole response without an error.
Filtered == listCall.pc \in {"put", "done"} /\ ~listCall.cached /\ listCall.e = Nil

\* The entries of the members of a collection, with their paths in the drive.
MemberEntries(t, prefix, dir) ==
    LET k == Len(Names(prefix))
        rel(n) == JoinPath([i \in 1..(Len(n) - k) |-> <<n[k + i]>>])
        in(S) == {n \in S : Len(n) = Len(dir) + 1 /\ SubSeq(n, 1, Len(dir)) = dir}
    IN {ListEntry(rel(n), FALSE) : n \in in(t.files)}
       \cup {ListEntry(rel(n), TRUE) : n \in in(t.dirs)}

\* One entry per member of the requested collection, none for itself.
ExactlyTheMembers ==
    (Filtered /\ HonestAnswer) =>
        LET expected == MemberEntries(listCall.tree, listPrefix,
                                      Target(listPrefix, listCall.path))
        IN /\ Len(listCall.entries) = Cardinality(expected)
           /\ {listCall.entries[i] : i \in 1..Len(listCall.entries)} = expected

\* The response with the hrefs /x/, /x/y, /x/z/.
ExampleResponse ==
    <<[href |-> <<"/", "x", "/">>, collection |-> TRUE],
      [href |-> <<"/", "x", "/", "y">>, collection |-> FALSE],
      [href |-> <<"/", "x", "/", "z", "/">>, collection |-> TRUE]>>

ExampleEntries == <<ListEntry(<<"y">>, FALSE), ListEntry(<<"z">>, TRUE)>>

(* C14 as stated: List returns exactly one entry per element that is a      *)
(* child of the requested path and none for the requested directory; and    *)
(* List("/x") on the response /x/, /x/y, /x/z/ under the root prefix /x     *)
(* returns the two entries y and z.                                         *)
C14_ListExampleAtX ==
    /\ ExactlyTheMembers
    /\ (/\ Filtered
        /\ listPrefix = <<"/", "x">>
        /\ listCall.path = <<"/", "x">>
        /\ listCall.res = ExampleResponse) => listCall.entries = ExampleEntries

(* C14: List returns exactly one entry per element that is a child of the   *)
(* requested path and none for the requested directory; and List("/") on    *)
(* the response /x/, /x/y, /x/z/ under the root prefix /x returns the two   *)
(* entries y and z, while List("/x") on that response returns none.         *)
C14_ListChildren ==
    /\ ExactlyTheMembers
    /\ (/\ Filtered
        /\ listPrefix = <<"/", "x">>
        /\ listCall.res = ExampleResponse) =>
            /\ listCall.path = <<"/">> => listCall.entries = ExampleEntries
            /\ listCall.path = <<"/", "x">> => listCall.entries = <<>>

\* List("/") under the root prefix /x has returned y and z.
C14_Witness ==
    /\ listCall.pc = "done" /\ ~listCall.cached
    /\ listPrefix = <<"/", "x">>
    /\ listCall.path = <<"/">>
    /\ HonestAnswer
    /\ listCall.res = ExampleResponse
    /\ listCall.entries = ExampleEntries
    /\ listCache[<<>>].hit

(***************************************************************************)
(* Properties of the streaming copy and of GetIContentReader               *)
(***************************************************************************)
(* C15: once the context is canceled, Copy transfers at most one further    *)
(* chunk, and if it transferred one it returns the canceled error; what it  *)
(* has written stays written, a prefix of the stream; and a stream          *)
(* transferred completely with no cancellation returns no error.            *)
C15_CancelWithinChunk ==
    /\ ictx.canceled => Len(cp.out) <= ictx.at + 1
    /\ (cp.returned /\ ictx.canceled /\ Len(cp.out) > ictx.at) =>
           cp.err = ErrorCanceled
    /\ cp.out = SubSeq(rd.data, 1, Len(cp.out))
    /\ (cp.returned /\ ~ictx.canceled /\ cp.out = rd.data /\ cp.ee = Nil) =>
           cp.err = Nil

(* C16: when a read or a write fails during Copy, Copy returns that error;  *)
(* CopyReaderToTempFile then removes the temporary file and returns the     *)
(* error, handing no file back; and CopyEntry returns it without a Save.    *)
C16_IoErrorsReturned ==
    cp.ee # Nil =>
        /\ cp.returned => cp.err = cp.ee
        /\ ipc \in {"ce.save", "done"} =>
              /\ ipc = "done"
              /\ ~tmp.exists
              /\ ~tmp.handed
              /\ iret.e = cp.ee
              /\ saves = <<>>

(* C20: GetIContentReader, as CopyEntry runs it, calls GetReader only when  *)
(* GetURL fails with Unsupported; any other GetURL error is returned as it  *)
(* is, GetReader not being called; DownloadIContent does the same.          *)
C20_FallbackOnUnsupportedOnly ==
    LET g == ContentGetURL(content)
        other == g.e # Nil /\ ~IsUnsupportedError(g.e)
    IN /\ (dreq.op = "CopyEntry" /\ content.readable /\ other) =>
              \/ ipc \in {"ce.content", "gr.url"}
              \/ /\ ipc = "done"
                 /\ iret.e = g.e
                 /\ rd.via # "GetReader"
       /\ (dreq.op = "CopyEntry" /\ content.readable /\ IsUnsupportedError(g.e)) =>
              \/ ipc \in {"ce.content", "gr.url", "gr.reader"}
              \/ rd.via = "GetReader"
       /\ (Downloading /\ other) =>
              \/ ipc = "dl.url"
              \/ ipc = "done" /\ iret.e = g.e /\ ~rw.committed
       /\ (Downloading /\ IsUnsupportedError(g.e)) =>
              ipc \in {"dl.url", "dl.reader", "dl.serve", "dl.stream", "done"}

(***************************************************************************)
(* Ordering within one CopyAll walk                                        *)
(***************************************************************************)
\* The directories of the source above node n.
Ancestors(n) == {d \in DirNodes(src) : IsPrefix(d, n) /\ d # n}

\* The operations on the destination made for a node.
DestOps == {"Get", "MakeDir", "doCopy", "copied", "copyFailed", "after"}

\* Before event i the destination of directory d was found to be there or
\* was made.
Established(d, i) ==
    \E j \in 1..(i - 1) :
        /\ log[j].node = d
        /\ log[j].err = Nil
        /\ \/ log[j].op = "MakeDir"
           \/ log[j].op = "Get" /\ log[j].flag
        /\ dst[Mirror(d)].type = "dir"

\* The nodes the walk has entered, in order.
Entered ==
    LET idx == OpIdx("enter")
        RECURSIVE InOrder(_)
        InOrder(S) == IF S = {} THEN <<>>
                  ELSE LET i == CHOOSE k \in S : \A m \in S : k <= m
                       IN <<log[i].node>> \o InOrder(S \ {i})
    IN InOrder(idx)

(* C17: within one CopyAll walk, MakeDir, the copy primitive and the after  *)
(* callback are invoked for a node only after the destination of every      *)
(* directory above it was found to exist as a directory or was made; the    *)
(* nodes are entered in depth-first order, one after the other; and while   *)
(* the copy primitive runs nothing else is done on the destination.         *)
C17_DirectoryBeforeChildren ==
    phase \in {"apply", "done"} =>
        /\ \A i \in 1..Len(log) :
              log[i].op \in {"MakeDir", "doCopy", "after"} =>
                  \A d \in Ancestors(log[i].node) : Established(d, i)
        /\ Len(Entered) <= Len(Order)
        /\ Entered = SubSeq(Order, 1, Len(Entered))
        /\ \A i \in OpIdx("doCopy") :
              CallAfter(i) # 0 =>
                  /\ log[CallAfter(i)].op \in {"copied", "copyFailed"}
                  /\ log[CallAfter(i)].node = log[i].node

\* The example tree was copied onto a destination that held its root only:
\* the inner directory was made before its file was copied.
C17_Witness ==
    /\ Done /\ result = Nil
    /\ src = TreeExample
    /\ \E g \in EvIdx("Get", <<"a">>), m \in EvIdx("MakeDir", <<"a", "b">>),
          c \in EvIdx("doCopy", <<"a", "b", "f2">>),
          a \in EvIdx("after", <<"a", "b", "f2">>) :
            /\ log[g].flag
            /\ g < m /\ m < c /\ c < a
    /\ Entered = Order

(***************************************************************************)
(* The WebDAV driver used by two callers at once                           *)
(***************************************************************************)
\* The server states the two callers start on: y is a file; x is a file or
\* is not there.
SharedStates ==
    {f \in WStates : f[<<"y">>] = WFile("dy") /\ f[<<"x">>] \in {NoW, WFile("dx")}}

\* A drive with caching on, just opened, used by two callers whose calls
\* interleave step by step.
InitDavShared ==
    /\ CopyOff
    /\ IoOff
    /\ ListOff
    /\ wfs \in SharedStates
    /\ wcacheOn = TRUE
    /\ wcache = OpenedCache(wfs, wcacheOn)
    /\ clients = {1, 2}
    /\ wc = [c \in clients |-> IdleCall]
    /\ ncalls = 0

\* The caller has made no call yet.
Fresh(c) == c \in clients /\ wc[c].pc = "idle"

\* Each caller makes one call.
NextDavShared ==
    \/ \E c \in clients : Fresh(c) /\ GetCall(c)
    \/ \E c \in clients : GetLookup(c)
    \/ \E c \in clients : GetRequest(c)
    \/ \E c \in clients : GetPut(c)
    \/ \E c \in clients : Fresh(c) /\ SaveCall(c)
    \/ \E c \in clients : SaveChecked(c)
    \/ \E c \in clients : SavePut(c)
    \/ \E c \in clients : Fresh(c) /\ MakeDirCall(c)
    \/ \E c \in clients : Fresh(c) /\ DeleteCall(c)
    \/ \E c \in clients : Fresh(c) /\ CopyOrMoveCall(c)
    \/ \E c \in clients : CopyOrMoveRequest(c)
    \/ \E c \in clients : EvictStep(c)
    \/ CacheExpire

SpecDavShared == InitDavShared /\ [][NextDavShared]_vars

(***************************************************************************)
(* Properties of the WebDAV driver under two callers                       *)
(***************************************************************************)
\* Every call made has returned.
AllReturned == \A c \in clients : wc[c].pc \in {"idle", "done"}

\* The cache's record of p, if there is one, is the entry the server holds.
CoherentAt(p) ==
    ~wcache[p].nil => (wfs[p].type # "none" /\ wcache[p] = NewEntry(p, wfs[p]))

\* Caller c has run a Get and caller d a Delete, Save, Copy or Move.
ReadAndMutation(c, d) ==
    /\ c # d
    /\ wc[c].op = "Get" /\ wc[c].pc = "done"
    /\ wc[d].op \in {"Delete", "Save", "COPY", "MOVE"} /\ wc[d].pc = "done"

(* C18: with caching on, once a Get(p) and a Delete, Save, Copy or Move     *)
(* run by another caller at the same time have both returned, the cache     *)
(* holds no record of p that differs from what the server holds.            *)
C18_CacheCoherent ==
    \A c, d \in clients :
        (wcacheOn /\ ReadAndMutation(c, d)) => CoherentAt(wc[c].path)

\* Callers c and d each run a Save that may not overwrite, on the same path,
\* which was not there when the first of them started.
TwoSaves(c, d) ==
    /\ c # d
    /\ SaveNoOverride(wc[c]) /\ SaveNoOverride(wc[d])
    /\ wc[c].path = wc[d].path
    /\ \/ wc[c].fs0[wc[c].path].type = "none"
       \/ wc[d].fs0[wc[d].path].type = "none"

\* The call's PUT was answered with success.
HasPut(r) == \E i \in ReqIdx(r, "PUT") : Success(r.hist[i].status)

(* C19 as stated: of two Saves that may not overwrite, run at the same time *)
(* on a path that is not there, at most one issues a PUT that succeeds; and *)
(* when both have returned, no request having failed, one has succeeded     *)
(* and the other has returned NotAllowed.                                   *)
C19_AtMostOnePut ==
    \A c, d \in clients :
        TwoSaves(c, d) =>
            /\ ~(HasPut(wc[c]) /\ HasPut(wc[d]))
            /\ (/\ wc[c].pc = "done" /\ wc[d].pc = "done"
                /\ Unfailed(wc[c]) /\ Unfailed(wc[d])) =>
                   \/ wc[c].err = Nil /\ wc[d].err = FileExists
                   \/ wc[d].err = Nil /\ wc[c].err = FileExists

\* In this step caller c's existence check is answered by the server.
CheckAnsweredNow(c) ==
    /\ SaveNoOverride(wc[c])
    /\ wc[c].pc = "get.req" /\ wc[c].cont = "save.checked"
    /\ wc'[c] # wc[c]

\* A Save that may not overwrite issues a PUT only after its own check was
\* answered not-found; one whose check found the path returns NotAllowed
\* (the parse error, if the answer could not be parsed).
PutOnlyAfterNotFound(r) ==
    /\ ReqIdx(r, "PUT") # {} => CheckAnswered(r, 404)
    /\ (r.pc = "done" /\ (CheckAnswered(r, 207) \/ r.hist = <<>>)) =>
          r.err = (IF r.hist # <<>> /\ r.hist[1].body = "malformed"
                   THEN Err("XML") ELSE FileExists)

(* C19: of two Saves that may not overwrite, run at the same time on a path *)
(* that is not there, each issues its PUT only if its own existence check   *)
(* was answered not-found, and a check answered by the server after the     *)
(* other's PUT succeeded finds the path (or fails), so that call returns   *)
(* NotAllowed (or the check's error) with no PUT; the check and the PUT    *)
(* are not atomic, and when both checks come before both PUTs, both PUTs   *)
(* are issued and the later one wins.                                       *)
C19_PutAfterOwnCheck ==
    /\ [](\A c, d \in clients :
            TwoSaves(c, d) => PutOnlyAfterNotFound(wc[c]))
    /\ [][\A c, d \in clients :
            (/\ TwoSaves(c, d)
             /\ CheckAnsweredNow(c)
             /\ HasPut(wc[d])
             /\ wfs[wc[c].path].type # "none") =>
                 \/ CheckAnswered(wc'[c], 207)
                 \/ \E st \in FaultStatuses : CheckAnswered(wc'[c], st)]_vars

\* Both Saves found the path absent, both PUTs succeeded and both calls
\* returned without an error: the second PUT overwrote the first.
C19_Witness ==
    \E c, d \in clients :
        /\ TwoSaves(c, d)
        /\ wc[c].pc = "done" /\ wc[d].pc = "done"
        /\ HasPut(wc[c]) /\ HasPut(wc[d])
        /\ wc[c].err = Nil /\ wc[d].err = Nil
        /\ \E i \in ReqIdx(wc[c], "PUT"), j \in ReqIdx(wc[d], "PUT") :
             wc[c].hist[i].status = 201 /\ wc[d].hist[j].status = 204

====
